---- MODULE Spec2Model ----
(***************************************************************************)
(* Batch scheduler / executor and retry engine of the form-automation core *)
(* (batch-processor.js, also consolidated into automation-core.js), and    *)
(* the form detection engine: visibility filter, form detector, metadata   *)
(* extractor, mapping suggester and visual fallback                        *)
(* (form-detection-engine.js and its second copy).                         *)
(*                                                                         *)
(* JavaScript runs every handler to completion between two suspension      *)
(* points, so one action of this module is one synchronous stretch of      *)
(* code: a whole scheduleBatchRun / trackBatchProgress /                   *)
(* handleBatchCompletion / suggestMappings call, the part of executeBatch  *)
(* or retryFailedSubmissions up to its first `await`, and the part between *)
(* the settlement of one awaited promise and the next `await` (or the      *)
(* return).                                                                *)
(*                                                                         *)
(* Spec, SpecDisk and SpecTrack are the batch registry with its callers,   *)
(* SpecRetry is retryFailedSubmissions, SpecSuggest is suggestMappings,    *)
(* SpecHidden is isHidden, SpecDetect is detectForms, SpecExtract is       *)
(* extractFormMetadata and SpecFallback is fallbackVisualDetection: each   *)
(* of these starts from the arguments of one call and applies the          *)
(* function of either implementation to them.                              *)
(* SpecCrash is the registry on a disk whose writes may fail with a        *)
(* processor that rejects with anything, SpecCluster is                    *)
(* fallbackVisualDetection on a page with controls at varied distances.    *)
(* SpecNotify is the NotificationManager (notifications.js) with its       *)
(* streams, SpecStats is aggregateStatUpdate of the analytics module with  *)
(* its promise lock, SpecDebounce and SpecDebounceFair are one function    *)
(* returned by debounceAsync of the content script.                        *)
(*                                                                         *)
(* Not modelled: the createdAt/updatedAt clock readings, the always-empty  *)
(* logs/retries fields, the length of the retry delay and the append-only  *)
(* batch-processor.log file, which the program writes and never reads; of  *)
(* the detection engine, the label, placeholder, required and autocomplete *)
(* of a FieldDescriptor, the id, name, action and method of a descriptor   *)
(* built by extractFormMetadata, and closed shadow roots; of the           *)
(* notification manager, message, type, data and timestamp of a           *)
(* notification, the alertType listeners and dismissal, and what the       *)
(* listeners of a stream do; of the analytics module, lastEvent and the    *)
(* log files.                                                              *)
(***************************************************************************)
EXTENDS Integers, Sequences, FiniteSets, TLC

\* ---------------------------------------------------------------- bounds
MaxBatches == 2      \* batches in the registry
MaxRows == 3         \* rows handed to executeBatch, all calls together
MaxFinalize == 1     \* handleBatchCompletion calls that find their batch
MaxWriteErrors == 1  \* writes of the state file that fail
MaxChanges == 1      \* writes of a caller to a trackBatchProgress result it kept
MaxRetryRecords == 2 \* FailureRecords handed to retryFailedSubmissions
MaxPolicyAttempts == 2 \* largest maxAttempts a retry policy states
MaxFields == 2       \* fields handed to suggestMappings
MaxRules == 2        \* rules handed to suggestMappings
MaxDepth == 2        \* elements on the parentElement walk of isHidden
MaxNodes == 3        \* elements of a document handed to detectForms
MaxControls == 3     \* controls of a form handed to extractFormMetadata
MaxSnapshot == 4     \* elements of a snapshot handed to fallbackVisualDetection
MaxStreams == 2      \* streams opened with streamRealTimeNotifications
MaxSent == 2         \* sendNotification calls
MaxUpdates == 3      \* aggregateStatUpdate calls
MaxStatErrors == 1   \* failed reads and writes of the stats file
MaxTriggers == 4     \* calls of the function debounceAsync returned

\* ---------------------------------------------------------------- inputs
Profiles == {"p1", "p2"}
Rows == 1 .. MaxRows
BatchConfigs == {"cfg"}
Summaries == {"extSummary"}
Ids == 1 .. MaxBatches

\* What one processForm(profile, row) promise can settle with: a result, a
\* rejection with an Error (it has a .message), a rejection with some other
\* non-null value (its .message is undefined), a rejection with null or
\* undefined (reading .message of it throws a TypeError).
ProcessorOutcomes == {"success", "Error", "nonError", "nullish"}

\* The row lists handed to executeBatch: row k of a list is the row numbered k.
InputRowLists == {[k \in 1 .. n |-> k] : n \in 0 .. MaxRows}

VARIABLES
    batches,    \* the registry: Map batchId -> Batch, in insertion order
    persisted,  \* content of batch-state.json
    writeCalls, \* number of persistBatchState calls made so far
    writeErrors, \* number of those whose fs.writeFileSync threw
    events,     \* what batchEmitter has emitted: for each batch id, the events
                \* carrying that id, in the order of emission
    calls,      \* the executeBatch activations that got past the lookup
    finalized,  \* number of handleBatchCompletion calls that found their batch
    lastError,  \* what the most recent call threw, if it threw
    statusLog,  \* for each registry position, every value its status was given
    held,       \* the trackBatchProgress result a caller of the module has kept
    retry,      \* the retryFailedSubmissions activation: arguments, locals, position
    mapped,     \* a suggestMappings call: arguments, implementation, result
    scan,       \* a call of isHidden, detectForms, extractFormMetadata or
                \* fallbackVisualDetection: function, implementation, argument,
                \* result
    manager,    \* the NotificationManager: stored notifications, listeners of
                \* 'notification', and the streams handed out
    statsDb,    \* analytics_stats.json, the aggregateStatUpdate activations
                \* and the failed reads and writes of the file
    debounce    \* one function returned by debounceAsync: its closure
                \* variables and the executions of the wrapped function

\* The notification manager, the analytics module and the content script.
serviceVars == <<manager, statsDb, debounce>>

vars == <<batches, persisted, writeCalls, writeErrors, events, calls, finalized,
          lastError, statusLog, held, retry, mapped, scan, serviceVars>>

\* What scheduleBatchRun, executeBatch, trackBatchProgress and
\* handleBatchCompletion neither read nor write.
retryVars == <<retry, mapped, scan, serviceVars>>

\* What retryFailedSubmissions neither reads nor writes.
batchVars == <<batches, persisted, writeCalls, writeErrors, events, calls, finalized,
               lastError, statusLog, held, mapped, scan, serviceVars>>

\* What suggestMappings neither reads nor writes.
processorVars == <<batches, persisted, writeCalls, writeErrors, events, calls, finalized,
                   lastError, statusLog, held, retry, scan, serviceVars>>

\* What isHidden, detectForms, extractFormMetadata and fallbackVisualDetection
\* neither read nor write.
engineVars == <<batches, persisted, writeCalls, writeErrors, events, calls, finalized,
                lastError, statusLog, held, retry, mapped, serviceVars>>

\* What the notification manager, the analytics module and the content script
\* neither read nor write.
coreVars == <<batches, persisted, writeCalls, writeErrors, events, calls, finalized,
              lastError, statusLog, held, retry, mapped, scan>>

\* ---------------------------------------------------------------- data
\* JavaScript null (a missing summary, the result for an unknown batch id).
Null == [kind |-> "null"]

NoError == [message |-> "none", profile |-> "none"]

ZeroProgress == [total |-> 0, processed |-> 0, failed |-> 0, succeeded |-> 0]

\* The caller has kept no trackBatchProgress result.
NotHeld == [object |-> 0, batchId |-> 0, value |-> Null, changes |-> 0]

NewBatch(batchId, profile, batchConfig) ==
    [id |-> batchId,
     profile |-> profile,
     batchConfig |-> batchConfig,
     inputRows |-> <<>>,
     status |-> "scheduled",
     progress |-> ZeroProgress,
     summary |-> Null,
     failures |-> <<>>]

\* Map.prototype.get / has: the position of the key, 0 when absent.
MapIndex(reg, id) ==
    IF \E i \in 1 .. Len(reg) : reg[i].id = id
    THEN CHOOSE i \in 1 .. Len(reg) : reg[i].id = id
    ELSE 0

\* Map.prototype.set: an existing key keeps its position, a new key goes last.
MapSet(reg, id, b) ==
    IF MapIndex(reg, id) = 0 THEN Append(reg, b)
    ELSE [reg EXCEPT ![MapIndex(reg, id)] = b]

BatchIds(reg) == {reg[i].id : i \in 1 .. Len(reg)}

\* Faulty variant: an identifier source that can hand out an identifier again.
uuidv4Reused(used) == Ids

\* uuidv4(): a random 122-bit identifier; the outcomes are the identifiers not
\* handed out before.
uuidv4(used) == Ids \ used

\* ---------------------------------------------------------------- retry data
\* const maxAttempts = retryPolicy.maxAttempts || 3
DefaultMaxAttempts == 3

\* A retry policy: maxAttempts is stated (given) or left out. retryDelayMs only
\* sets how long each delay lasts and is not modelled.
RetryPolicies ==
    {[given |-> FALSE, maxAttempts |-> 0]} \cup
    {[given |-> TRUE, maxAttempts |-> m] : m \in 0 .. MaxPolicyAttempts}

\* The attempt counts of the records handed in: 0 stands for a record whose
\* attempt is 0 or missing, the largest one exceeds every stated maxAttempts.
EntryAttempts == 0 .. MaxPolicyAttempts + 1

EarlierError == "Simulated form submission error"

\* The lists handed to retryFailedSubmissions, as the attempt counts of their
\* records: record k is about row k.
FailureLists ==
    UNION {[1 .. n -> EntryAttempts] : n \in 0 .. MaxRetryRecords}

FailureRecordOf(attempts, k) ==
    [row |-> k, profile |-> "p1", error |-> EarlierError, attempt |-> attempts[k]]

FailureListOf(attempts) == [k \in 1 .. Len(attempts) |-> FailureRecordOf(attempts, k)]

\* No retryFailedSubmissions call has been made.
RetryIdle ==
    [pc |-> "idle",            \* idle, delay, processForm, returned, rejected
     failures |-> <<>>,        \* the argument `failures`
     retryPolicy |-> [given |-> FALSE, maxAttempts |-> 0],
     k |-> 0,                  \* position of `failure` in `failures`
     attempt |-> 0,
     lastError |-> "none",
     succeeded |-> FALSE,
     finalResults |-> <<>>,
     newFailures |-> <<>>,
     outcomes |-> <<>>,        \* per record, how its processForm calls settled
     invocations |-> <<>>,     \* per record, the processForm calls made for it
     returned |-> Null]

\* ---------------------------------------------------------------- mapping data
\* FieldDescriptors as extractFormMetadata builds them; "" is an empty name, id
\* or label (falsy). The last one has nothing a pattern could be tested on.
FieldUniverse ==
    {[name |-> "email", id |-> "", label |-> "E-mail", type |-> "email"],
     [name |-> "", id |-> "contact", label |-> "", type |-> "text"],
     [name |-> "", id |-> "", label |-> "", type |-> "text"]}

\* rule.fieldMatch: a RegExp, given by the strings its test() accepts (here
\* /e-?mail/i), or a function, given by the fields it returns true for (here
\* f => f.type === 'text'), together with the fields it throws for (none here).
\* A rule without fieldMatch would have kind "none".
FieldMatches ==
    {[kind |-> "pattern", strings |-> {"email", "E-mail"}, fields |-> {},
      throws |-> {}],
     [kind |-> "function", strings |-> {},
      fields |-> {f \in FieldUniverse : f.type = "text"}, throws |-> {}]}

\* A predicate that throws for some fields: f => f.label.match(/mail/)[0] is
\* truthy for a field whose label contains "mail" and throws a TypeError for
\* every other field (match returns null).
ThrowingFieldMatch ==
    [kind |-> "function", strings |-> {},
     fields |-> {f \in FieldUniverse : f.label = "E-mail"},
     throws |-> {f \in FieldUniverse : f.label # "E-mail"}]

\* rule.typeMatch: absent, a string, or an array of strings.
TypeMatches ==
    {[kind |-> "absent", types |-> {}],
     [kind |-> "string", types |-> {"email"}],
     [kind |-> "list", types |-> {"email", "text"}]}

\* rule.suggest: a string, possibly the empty one.
Suggests == {"userEmail", "contactId", ""}

RuleUniverse ==
    {[fieldMatch |-> fm, typeMatch |-> tm, suggest |-> sg] :
        fm \in FieldMatches, tm \in TypeMatches, sg \in Suggests}

FieldLists == UNION {[1 .. n -> FieldUniverse] : n \in 0 .. MaxFields}

\* The rules argument: left out (undefined; anything that is not an array is
\* treated alike), or an array of rules.
RulesArguments ==
    {[given |-> FALSE, list |-> <<>>]} \cup
    {[given |-> TRUE, list |-> l] :
        l \in UNION {[1 .. n -> RuleUniverse] : n \in 0 .. MaxRules}}

\* Rules without typeMatch, the one with the throwing predicate among them.
FaultyRuleUniverse ==
    {[fieldMatch |-> fm, typeMatch |-> [kind |-> "absent", types |-> {}],
      suggest |-> sg] :
        fm \in FieldMatches \cup {ThrowingFieldMatch},
        sg \in {"userEmail", "contactId"}}

FaultyRulesArguments ==
    {[given |-> TRUE, list |-> l] :
        l \in UNION {[1 .. n -> FaultyRuleUniverse] : n \in 0 .. MaxRules}}

NoResult == [kind |-> "none", suggestions |-> <<>>, evaluated |-> <<>>]

\* An exception leaves the function.
Threw == [kind |-> "threw", suggestions |-> <<>>, evaluated |-> <<>>]

\* No suggestMappings call has been made.
NotMapped ==
    [formFields |-> <<>>, rules |-> [given |-> FALSE, list |-> <<>>],
     impl |-> "none", result |-> NoResult]

\* A JavaScript string value, as opposed to null.
Str(s) == [kind |-> "string", value |-> s]

\* ---------------------------------------------------------------- detection data
\* What a call of a detection function ends with: a returned value or an
\* exception that leaves the function.
Returned(v) == [kind |-> "returned", value |-> v]

Thrown == [kind |-> "threw", value |-> Null]

\* No detection function has been called.
NotScanned ==
    [fn |-> "none", impl |-> "none", input |-> Null,
     result |-> [kind |-> "none", value |-> Null]]

\* FORM_IGNORE_CLASSES
FORM_IGNORE_CLASSES == {"hidden", "invisible", "display-none"}

\* An element as isHidden sees it: its computed display, visibility and
\* opacity, its class list, and its aria-hidden attribute (Null when the
\* element has no such attribute).
PlainElement ==
    [display |-> "block", visibility |-> "visible", opacity |-> "1",
     classes |-> {}, ariaHidden |-> Null]

ElementLooks ==
    {PlainElement,
     [PlainElement EXCEPT !.display = "none"],
     [PlainElement EXCEPT !.visibility = "hidden"],
     [PlainElement EXCEPT !.opacity = "0"],
     [PlainElement EXCEPT !.classes = {"hidden"}],
     [PlainElement EXCEPT !.classes = {"invisible"}],
     [PlainElement EXCEPT !.classes = {"display-none"}],
     [PlainElement EXCEPT !.classes = {"form-control"}],
     [PlainElement EXCEPT !.ariaHidden = Str("true")],
     [PlainElement EXCEPT !.ariaHidden = Str("")],
     [PlainElement EXCEPT !.ariaHidden = Str("false")]}

\* node.nodeType: 1 is an element, 3 a text node.
NodeTypes == {1, 3}

\* The argument of isHidden: its nodeType, whether its ownerDocument has a
\* defaultView (a detached node has none), and the elements the parentElement
\* walk goes through (at most `depth`), nearest first: for an element the node
\* itself comes first, for a text node the chain holds its ancestors only.
Nodes(depth) ==
    {[nodeType |-> t, view |-> v, chain |-> c] :
        t \in NodeTypes, v \in BOOLEAN,
        c \in UNION {[1 .. n -> ElementLooks] : n \in 0 .. depth}}
    \ {[nodeType |-> 1, view |-> v, chain |-> <<>>] : v \in BOOLEAN}

\* How an element of a document looks to isHidden: plain, or with the class
\* 'hidden'.
DomLooks == {PlainElement, [PlainElement EXCEPT !.classes = {"hidden"}]}

\* Where element i of a document can be: at the top of the document (parent 0,
\* host 0), a child of an earlier element (parent p), or at the top of the
\* shadow tree attached to an earlier element (host h).
Placements(i) ==
    {[parent |-> 0, host |-> 0]} \cup
    {[parent |-> p, host |-> 0] : p \in 1 .. i - 1} \cup
    {[parent |-> 0, host |-> h] : h \in 1 .. i - 1}

\* What element i of a document can be, after the elements of l: a form or
\* another element, with its look and its place. Only an element that is not
\* a form can carry a shadow tree (attachShadow refuses a form).
ElementsAfter(l) ==
    {[tag |-> t, look |-> k, parent |-> pl.parent, host |-> pl.host] :
        t \in {"form", "div"}, k \in DomLooks,
        pl \in {q \in Placements(Len(l) + 1) : q.host # 0 => l[q.host].tag = "div"}}

RECURSIVE ElementLists(_)
\* The elements of a document with n elements, numbered in the order a tree
\* walk meets them.
ElementLists(n) ==
    IF n = 0 THEN {<<>>}
    ELSE UNION {{Append(l, e) : e \in ElementsAfter(l)} : l \in ElementLists(n - 1)}

\* The documentContext handed to detectForms: whether it has a defaultView,
\* and its elements (at most `nodes`), those of its (open) shadow trees
\* included.
Documents(nodes) ==
    {[view |-> v, elements |-> l] :
        v \in BOOLEAN, l \in UNION {ElementLists(n) : n \in 0 .. nodes}}

\* The controls of formElement.elements: name and id ("" when missing), look
\* and disabled flag. The controls with a name are <input type="email">, the
\* others <object> elements without a type attribute (their type is "").
ControlUniverse ==
    {[name |-> n, id |-> i, look |-> k, disabled |-> d,
      type |-> IF n = "" THEN "" ELSE "email",
      tagName |-> IF n = "" THEN "OBJECT" ELSE "INPUT"] :
        n \in {"", "email"}, i \in {"", "contact"}, k \in DomLooks, d \in BOOLEAN}

\* The formElement handed to extractFormMetadata: whether its document has a
\* defaultView, its own look, and its controls (at most `controls`) in
\* document order (the collection holds every control once).
FormElements(controls) ==
    {[view |-> v, look |-> k, elements |-> l] :
        v \in BOOLEAN, k \in DomLooks,
        l \in UNION {[1 .. n -> ControlUniverse] : n \in 0 .. controls}}

\* FORM_FIELD_SELECTORS, in the order of the list.
FORM_FIELD_SELECTORS ==
    <<"input:not([type=\"hidden\"]):not([disabled])", "select:not([disabled])",
      "textarea:not([disabled])", "[contenteditable=\"true\"]">>

\* Math.abs(rect.top - lastBottom) < 60: the largest gap within a cluster.
ProximityThreshold == 60

\* getBoundingClientRect() of the controls: two rows of the page, the second
\* one starting exactly ProximityThreshold below the end of the first.
Rects == {[top |-> 0, bottom |-> 20], [top |-> 80, bottom |-> 100]}

\* An <input type="text"> at the top of the page, without name and id.
PlainInput ==
    [tagName |-> "INPUT", type |-> "text", editable |-> FALSE, disabled |-> FALSE,
     name |-> "", id |-> "", look |-> PlainElement,
     rect |-> [top |-> 0, bottom |-> 20]]

\* The elements of a snapshot: inputs with and without a name, with and
\* without contenteditable="true", in either row; an input with an id only, a
\* hidden one, a disabled one and a disabled one with contenteditable="true".
SnapshotElements ==
    {[PlainInput EXCEPT !.editable = e, !.name = n, !.rect = r] :
        e \in BOOLEAN, n \in {"", "email"}, r \in Rects} \cup
    {[PlainInput EXCEPT !.id = "contact"],
     [PlainInput EXCEPT !.name = "email", !.look.classes = {"hidden"}],
     [PlainInput EXCEPT !.name = "email", !.disabled = TRUE],
     [PlainInput EXCEPT !.name = "email", !.disabled = TRUE, !.editable = TRUE]}

\* getBoundingClientRect() of the controls of a page with a third row that
\* starts one unit above the second, a fourth row that starts exactly
\* ProximityThreshold below the end of the third, and a tall control that
\* starts in the first row and ends below the others.
ClusterRects ==
    Rects \cup {[top |-> 79, bottom |-> 99], [top |-> 159, bottom |-> 179],
                [top |-> 0, bottom |-> 200]}

\* The elements of such a page: a named input in each place, one with
\* contenteditable="true" and a hidden one.
ClusterElements ==
    {[PlainInput EXCEPT !.name = "email", !.rect = r] : r \in ClusterRects} \cup
    {[PlainInput EXCEPT !.name = "email", !.editable = TRUE],
     [PlainInput EXCEPT !.name = "email", !.look.classes = {"hidden"}]}

\* The snapshots of such a page, of at most `elements` elements.
ClusterSnapshots(elements) ==
    {[view |-> v, elements |-> l] :
        v \in BOOLEAN,
        l \in UNION {[1 .. n -> ClusterElements] : n \in 0 .. elements}}

\* The domSnapshot handed to fallbackVisualDetection: whether its document
\* has a defaultView, and its elements (at most `elements`) in document order.
Snapshots(elements) ==
    {[view |-> v, elements |-> l] :
        v \in BOOLEAN,
        l \in UNION {[1 .. n -> SnapshotElements] : n \in 0 .. elements}}

\* ---------------------------------------------------------------- notification data
UserIds == {"user1", "user2"}

\* options.userId and options.data.userId of a sendNotification call: a user
\* id, or "" for a value that is left out, null or empty.
UserIdArguments == UserIds \cup {""}

\* new NotificationManager(): no notification stored, no listener, no stream.
NewManager == [notifications |-> <<>>, listeners |-> <<>>, streams |-> <<>>]

\* ---------------------------------------------------------------- analytics data
\* The formId arguments: an ordinary id, an id that is also the name of a
\* property every object inherits, and a string validateFormId rejects.
FormIdArguments == {"form1", "constructor", "<form>"}

\* The keys a stats object of the model can hold.
StatsKeys == {"form1", "constructor"}

\* The counted event types, and the eventType arguments: those and another.
CountedTypes == {"submission", "interaction"}
EventTypeArguments == CountedTypes \cup {"unknown"}

\* What a stats object holds under a key as its own property: nothing, the
\* counters of a form, or the function Object.
NoProperty == [kind |-> "absent", submission |-> 0, interaction |-> 0]
ZeroCounters == [kind |-> "counters", submission |-> 0, interaction |-> 0]
ObjectFunction == [kind |-> "function", submission |-> 0, interaction |-> 0]

\* let stats = {}
EmptyStats == [k \in StatsKeys |-> NoProperty]

\* analytics_stats.json: missing, or the JSON text of a stats object.
NoStatsFile == [kind |-> "none", stats |-> EmptyStats]
StatsFile(stats) == [kind |-> "json", stats |-> stats]

\* The module after loading: let statsDbWriteLock = Promise.resolve(), no call
\* made, no stats file yet, no failed read or write, and the function Object
\* without properties named after event types.
StatsIdle ==
    [file |-> NoStatsFile, calls |-> <<>>, errors |-> 0,
     object |-> [submission |-> 0, interaction |-> 0]]

\* ---------------------------------------------------------------- debounce data
\* debounceAsync(fn, delay) has returned: t = null, pending = false,
\* lastArgs = null (0), no trigger yet and no execution of fn.
DebounceIdle ==
    [t |-> "none", pending |-> FALSE, lastArgs |-> 0, triggers |-> 0,
     executions |-> <<>>]

\* The three services before any call.
ServicesIdle ==
    /\ manager = NewManager
    /\ statsDb = StatsIdle
    /\ debounce = DebounceIdle

\* ---------------------------------------------------------------- persistence
NoFile == [kind |-> "none", entries |-> <<>>]
CorruptFile == [kind |-> "corrupt", entries |-> <<>>]

\* JSON.stringify of one batch: a property whose value is undefined (the error
\* of a FailureRecord made from a rejection without message) is left out.
stringify(b) ==
    [b EXCEPT !.failures =
        [k \in 1 .. Len(b.failures) |->
            IF b.failures[k].error = "undefined"
            THEN [b.failures[k] EXCEPT !.error = "(left out)"]
            ELSE b.failures[k]]]

\* JSON.parse of one batch, as the program reads it: a property that was left
\* out reads as undefined.
parse(b) ==
    [b EXCEPT !.failures =
        [k \in 1 .. Len(b.failures) |->
            IF b.failures[k].error = "(left out)"
            THEN [b.failures[k] EXCEPT !.error = "undefined"]
            ELSE b.failures[k]]]

\* JSON.stringify([...batches.entries()])
JsonFile(reg) ==
    [kind |-> "json", entries |-> [i \in 1 .. Len(reg) |-> stringify(reg[i])]]

\* The disk as the program sees it: the state file and the write calls made.
Disk == [file |-> persisted, calls |-> writeCalls, errors |-> writeErrors]

\* Faulty variant: the write is counted and the file is left as it was.
persistBatchStateSkipped(ok, reg, disk) ==
    [file |-> disk.file,
     calls |-> disk.calls + 1,
     errors |-> IF ok THEN disk.errors ELSE disk.errors + 1]

\* fs.writeFileSync inside try/catch: a failed write is logged and swallowed.
persistBatchState(ok, reg, disk) ==
    [file |-> IF ok THEN JsonFile(reg) ELSE disk.file,
     calls |-> disk.calls + 1,
     errors |-> IF ok THEN disk.errors ELSE disk.errors + 1]

SetDisk(disk) ==
    /\ disk.errors <= MaxWriteErrors
    /\ persisted' = disk.file
    /\ writeCalls' = disk.calls
    /\ writeErrors' = disk.errors

\* loadBatchState at module load: entries of a readable file are set, in order.
loadBatchState(file) ==
    IF file.kind = "json"
    THEN [i \in 1 .. Len(file.entries) |-> parse(file.entries[i])]
    ELSE <<>>

\* A state file left behind by an earlier process that was killed while
\* executeBatch was waiting for the second of two rows.
InterruptedBatch ==
    [id |-> 1,
     profile |-> "p1",
     batchConfig |-> "cfg",
     inputRows |-> <<1, 2>>,
     status |-> "running",
     progress |-> [total |-> 2, processed |-> 1, failed |-> 0, succeeded |-> 1],
     summary |-> Null,
     failures |-> <<>>]

InitialFiles == {NoFile, CorruptFile, JsonFile(<<InterruptedBatch>>)}

Init ==
    /\ persisted \in InitialFiles
    /\ batches = loadBatchState(persisted)
    /\ writeCalls = 0
    /\ writeErrors = 0
    /\ events = [id \in Ids |-> <<>>]
    /\ calls = <<>>
    /\ finalized = 0
    /\ lastError = NoError
    /\ statusLog = [i \in 1 .. Len(batches) |-> <<batches[i].status>>]
    /\ held = NotHeld
    /\ retry = RetryIdle
    /\ mapped = NotMapped
    /\ scan = NotScanned
    /\ ServicesIdle

\* batchEmitter.emit(name, batchId, payload): listeners run synchronously and
\* are outside this module.
Emit(evs, name, batchId, payload) ==
    [evs EXCEPT ![batchId] = Append(@, [name |-> name, payload |-> payload])]

\* An assignment to the status field of the batch at position i.
LogStatus(log, i, status) ==
    IF i > Len(log) THEN Append(log, <<status>>)
    ELSE [log EXCEPT ![i] = Append(@, status)]

\* ---------------------------------------------------------------- scheduleBatchRun
ScheduleBatchRun(profile, batchConfig, batchId, ok) ==
    /\ Len(batches) < MaxBatches
    /\ batchId \in uuidv4(BatchIds(batches))
    /\ batches' = MapSet(batches, batchId, NewBatch(batchId, profile, batchConfig))
    /\ SetDisk(persistBatchState(ok, batches', Disk))
    /\ statusLog' = LogStatus(statusLog, MapIndex(batches', batchId), "scheduled")
    /\ lastError' = NoError
    /\ UNCHANGED <<events, calls, finalized, held>>
    /\ UNCHANGED retryVars

\* ---------------------------------------------------------------- executeBatch
\* Faulty variant: the lookup forgets the status test.
FindAnyOfProfile(reg, profile) ==
    LET matches == {i \in 1 .. Len(reg) : reg[i].profile = profile}
    IN  IF matches = {} THEN 0
        ELSE CHOOSE i \in matches : \A j \in matches : i <= j

\* [...batches.values()].find(b => b.profile === profile && b.status === 'scheduled'):
\* Faulty variant: a batch in status 'running' is found as well.
FindUnfinished(reg, profile) ==
    LET matches == {i \in 1 .. Len(reg) :
                       /\ reg[i].profile = profile
                       /\ reg[i].status \in {"scheduled", "running"}}
    IN  IF matches = {} THEN 0
        ELSE CHOOSE i \in matches : \A j \in matches : i <= j

\* the first match in insertion order, 0 for undefined.
FindScheduled(reg, profile) ==
    LET matches == {i \in 1 .. Len(reg) :
                       reg[i].profile = profile /\ reg[i].status = "scheduled"}
    IN  IF matches = {} THEN 0
        ELSE CHOOSE i \in matches : \A j \in matches : i <= j

NoScheduledBatch == "No scheduled batch for this profile."

StartBatch(b, inputRows) ==
    [b EXCEPT !.inputRows = inputRows,
              !.progress.total = Len(inputRows),
              !.status = "running"]

\* the try branch after the await: progress.succeeded += 1
RowSucceeded(progress) == [progress EXCEPT !.succeeded = @ + 1]

\* Faulty variant: a failed row is not counted.
RowFailedUncounted(progress) == progress

\* the catch branch: progress.failed += 1
RowFailed(progress) == [progress EXCEPT !.failed = @ + 1]

\* after try/catch: progress.processed += 1
RowProcessed(progress) == [progress EXCEPT !.processed = @ + 1]

\* err.message of what the processor rejected with
ErrMessage(outcome) ==
    IF outcome = "Error" THEN "Simulated form submission error" ELSE "undefined"

FailureRecord(row, profile, outcome) ==
    [row |-> row, profile |-> profile, error |-> ErrMessage(outcome), attempt |-> 1]

\* what processForm resolves with
FormResult(profile, row) == [profile |-> profile, row |-> row, status |-> "success"]

\* Faulty variant: the batch is marked completed whatever failed.
FinalStatusAlwaysCompleted(failures) == "completed"

\* failures.length === 0 ? 'completed' : 'failed'
FinalStatus(failures) == IF Len(failures) = 0 THEN "completed" ELSE "failed"

FinishBatch(b, inputRows, failures) ==
    [b EXCEPT !.failures = failures,
              !.status = FinalStatus(failures),
              !.summary = [kind |-> "auto",
                           total |-> Len(inputRows),
                           succeeded |-> b.progress.succeeded,
                           failed |-> b.progress.failed]]

NewCall(i, profile, inputRows) ==
    [batch |-> i,              \* batchEntry: the registry object the call holds
     profile |-> profile,
     inputRows |-> inputRows,
     invocations |-> <<>>,     \* indexes of the rows processForm was called for
     outcomes |-> <<>>,        \* how those calls settled
     results |-> <<>>,
     failures |-> <<>>,
     pc |-> "running",         \* running, awaiting, resolved, rejected
     returned |-> Null]

\* The head of the for loop, entered with Len(call.outcomes) rows done: either
\* processForm is called for the next row and the function suspends on it, or
\* the loop is over and the function runs on to its return statement.
EnterLoop(call, reg, disk, evs, log, ok) ==
    LET k == Len(call.outcomes)
        i == call.batch
    IN  IF k < Len(call.inputRows)
        THEN [reg |-> reg, disk |-> disk, evs |-> evs, log |-> log,
              call |-> [call EXCEPT !.invocations = Append(@, k + 1),
                                    !.pc = "awaiting"]]
        ELSE LET done == FinishBatch(reg[i], call.inputRows, call.failures)
                 reg2 == [reg EXCEPT ![i] = done]
             IN  [reg |-> reg2,
                  disk |-> persistBatchState(ok, reg2, disk),
                  evs |-> Emit(evs, "batchCompleted", done.id, done.summary),
                  log |-> LogStatus(log, i, done.status),
                  call |-> [call EXCEPT
                               !.pc = "resolved",
                               !.returned = [batchId |-> done.id,
                                             results |-> call.results,
                                             failures |-> done.failures]]]

RECURSIVE RowsSubmitted(_)
RowsSubmitted(cs) ==
    IF cs = <<>> THEN 0 ELSE Len(Head(cs).inputRows) + RowsSubmitted(Tail(cs))

\* executeBatch(profile, inputRows) up to its first await (or, for no rows, to
\* its return).
ExecuteBatch(profile, inputRows, ok1, ok2) ==
    /\ RowsSubmitted(calls) + Len(inputRows) <= MaxRows
    /\ UNCHANGED held
    /\ UNCHANGED retryVars
    /\ LET i == FindScheduled(batches, profile)
       IN  IF i = 0
           THEN \* throw new Error(i18n('No scheduled batch for this profile.'))
                /\ lastError' = [message |-> NoScheduledBatch, profile |-> profile]
                /\ UNCHANGED <<batches, persisted, writeCalls, writeErrors, events,
                               calls, finalized, statusLog>>
           ELSE LET reg1 == [batches EXCEPT ![i] = StartBatch(@, inputRows)]
                    disk1 == persistBatchState(ok1, reg1, Disk)
                    evs1 == Emit(events, "batchStarted", reg1[i].id, Null)
                    after == EnterLoop(NewCall(i, profile, inputRows),
                                       reg1, disk1, evs1,
                                       LogStatus(statusLog, i, reg1[i].status), ok2)
                IN  /\ batches' = after.reg
                    /\ statusLog' = after.log
                    /\ SetDisk(after.disk)
                    /\ events' = after.evs
                    /\ calls' = Append(calls, after.call)
                    /\ lastError' = NoError
                    /\ UNCHANGED finalized

\* The continuation of executeBatch call c when the processForm promise it
\* awaits settles with `outcome`.
RowSettled(c, outcome, ok1, ok2) ==
    /\ c \in 1 .. Len(calls)
    /\ calls[c].pc = "awaiting"
    /\ LET call == calls[c]
           i == call.batch
           k == Len(call.outcomes) + 1
           row == call.inputRows[k]
           settled == [call EXCEPT !.outcomes = Append(@, outcome)]
       IN  IF outcome = "nullish"
           THEN \* err.message throws inside the catch block: the call rejects
                /\ calls' = [calls EXCEPT ![c] = [settled EXCEPT !.pc = "rejected"]]
                /\ UNCHANGED <<batches, persisted, writeCalls, writeErrors, events,
                               statusLog>>
           ELSE LET call1 ==
                        IF outcome = "success"
                        THEN [settled EXCEPT
                                 !.results = Append(@, FormResult(batches[i].profile, row))]
                        ELSE [settled EXCEPT
                                 !.failures = Append(@, FailureRecord(row, batches[i].profile,
                                                                      outcome))]
                    reg1 == [batches EXCEPT ![i].progress =
                                RowProcessed(IF outcome = "success"
                                             THEN RowSucceeded(@) ELSE RowFailed(@))]
                    disk1 == persistBatchState(ok1, reg1, Disk)
                    evs1 == Emit(events, "progress", reg1[i].id, reg1[i].progress)
                    after == EnterLoop(call1, reg1, disk1, evs1, statusLog, ok2)
                IN  /\ batches' = after.reg
                    /\ statusLog' = after.log
                    /\ SetDisk(after.disk)
                    /\ events' = after.evs
                    /\ calls' = [calls EXCEPT ![c] = after.call]
    /\ lastError' = NoError
    /\ UNCHANGED <<finalized, held>>
    /\ UNCHANGED retryVars

\* ---------------------------------------------------------------- trackBatchProgress
\* The value returned: a fresh copy of the progress object, or null.
trackBatchProgress(reg, batchId) ==
    IF MapIndex(reg, batchId) = 0 THEN Null ELSE reg[MapIndex(reg, batchId)].progress

\* Faulty variant: the batch's own progress object is handed out.
ProgressObjectShared(reg, batchId) == MapIndex(reg, batchId)

\* Which object the caller gets: the spread { ...progress } builds a new object
\* (0) that shares nothing with the registry, where a registry position would
\* stand for the progress object of the batch at that position.
ProgressObject(reg, batchId) == 0

\* trackBatchProgress(batchId); the caller drops the result or keeps it.
TrackBatchProgress(batchId, keep) ==
    /\ trackBatchProgress(batches, batchId) \in
          {Null} \cup {batches[i].progress : i \in 1 .. Len(batches)}
    /\ IF keep
       THEN /\ held = NotHeld
            /\ held' = [object |-> ProgressObject(batches, batchId),
                        batchId |-> batchId,
                        value |-> trackBatchProgress(batches, batchId),
                        changes |-> 0]
       ELSE UNCHANGED held
    /\ lastError' = NoError
    /\ UNCHANGED <<batches, persisted, writeCalls, writeErrors, events, calls, finalized,
                   statusLog>>
    /\ UNCHANGED retryVars

\* The fields of a progress object a caller is taken to write to.
ProgressFields == {"processed", "failed"}

\* The caller of trackBatchProgress writes to a field of the object it kept
\* (result[field] += 1). The write lands in the registry exactly when that
\* object is a batch's own progress object.
CallerChangesResult(field) ==
    /\ held.value # Null
    /\ held.changes < MaxChanges
    /\ held' = [held EXCEPT !.value[field] = @ + 1, !.changes = @ + 1]
    /\ batches' = IF held.object = 0 THEN batches
                  ELSE [batches EXCEPT ![held.object].progress[field] = @ + 1]
    /\ UNCHANGED <<persisted, writeCalls, writeErrors, events, calls, finalized,
                   lastError, statusLog>>
    /\ UNCHANGED retryVars

\* ---------------------------------------------------------------- handleBatchCompletion
\* Faulty variant: the summary is stored, the status is left as it was.
FinalizeKeepsStatus(b, summary) ==
    [b EXCEPT !.summary = [kind |-> "external", value |-> summary]]

\* batch.status = 'completed'; batch.summary = summary
Finalize(b, summary) ==
    [b EXCEPT !.status = "completed",
              !.summary = [kind |-> "external", value |-> summary]]

HandleBatchCompletion(batchId, summary, ok) ==
    /\ finalized < MaxFinalize
    /\ LET i == MapIndex(batches, batchId)
       IN  IF i = 0
           THEN UNCHANGED <<batches, persisted, writeCalls, writeErrors, events, finalized,
                            statusLog>>
           ELSE /\ batches' = [batches EXCEPT ![i] = Finalize(@, summary)]
                /\ SetDisk(persistBatchState(ok, batches', Disk))
                /\ events' = Emit(events, "batchFinalized", batchId, batches'[i].summary)
                /\ statusLog' = LogStatus(statusLog, i, batches'[i].status)
                /\ finalized' = finalized + 1
    /\ lastError' = NoError
    /\ UNCHANGED <<calls, held>>
    /\ UNCHANGED retryVars

\* The values of every variable but mapped and scan before a function of the
\* form detection engine is called.
InitIdle ==
    /\ persisted = NoFile
    /\ batches = loadBatchState(persisted)
    /\ writeCalls = 0
    /\ writeErrors = 0
    /\ events = [id \in Ids |-> <<>>]
    /\ calls = <<>>
    /\ finalized = 0
    /\ lastError = NoError
    /\ statusLog = <<>>
    /\ held = NotHeld
    /\ retry = RetryIdle
    /\ ServicesIdle

\* ---------------------------------------------------------------- suggestMappings
\* s && rule.fieldMatch.test(s)
Test(fieldMatch, s) == s # "" /\ s \in fieldMatch.strings

\* !rule.typeMatch || (Array.isArray(rule.typeMatch)
\*     ? rule.typeMatch.includes(field.type) : field.type === rule.typeMatch)
TypeMatchOk(field, rule) ==
    \/ rule.typeMatch.kind = "absent"
    \/ field.type \in rule.typeMatch.types

\* `matches` of form-detection-engine.js.
RuleMatches(field, rule) ==
    /\ rule.fieldMatch.kind # "none"
    /\ IF rule.fieldMatch.kind = "function"
       THEN field \in rule.fieldMatch.fields
       ELSE \/ Test(rule.fieldMatch, field.name)
            \/ Test(rule.fieldMatch, field.id)
            \/ Test(rule.fieldMatch, field.label)
    /\ TypeMatchOk(field, rule)

\* rule.fieldMatch(field) throws.
PredicateThrows(field, rule) ==
    rule.fieldMatch.kind = "function" /\ field \in rule.fieldMatch.throws

RECURSIVE BestMatchLast(_, _, _)
\* Faulty variant: the loop does not stop at a match, the last match wins.
BestMatchLast(field, rules, i) ==
    IF i > Len(rules)
    THEN [bestMatch |-> Null, evaluated |-> Len(rules), threw |-> FALSE]
    ELSE LET rest == BestMatchLast(field, rules, i + 1)
         IN  IF RuleMatches(field, rules[i]) /\ rest.bestMatch = Null
             THEN [bestMatch |-> Str(rules[i].suggest), evaluated |-> Len(rules),
                   threw |-> FALSE]
             ELSE rest

RECURSIVE BestMatch(_, _, _)
\* `for (const rule of rules)` from rule i on: bestMatch = rule.suggest and
\* break at the first rule that matches; `evaluated` counts the rules looked
\* at. An exception thrown by a predicate ends the loop and the call.
BestMatch(field, rules, i) ==
    IF i > Len(rules)
    THEN [bestMatch |-> Null, evaluated |-> Len(rules), threw |-> FALSE]
    ELSE IF PredicateThrows(field, rules[i])
         THEN [bestMatch |-> Null, evaluated |-> i, threw |-> TRUE]
         ELSE IF RuleMatches(field, rules[i])
              THEN [bestMatch |-> Str(rules[i].suggest), evaluated |-> i,
                    threw |-> FALSE]
              ELSE BestMatch(field, rules, i + 1)

\* if (bestMatch) push { field, mapping: bestMatch } else push { field, mapping: null }
Suggestion(field, bestMatch) ==
    [field |-> field,
     mapping |-> IF bestMatch # Null /\ bestMatch.value # "" THEN bestMatch ELSE Null]

\* if (rules && Array.isArray(rules)): the rules the loop goes through.
RulesLooped(rules) == IF rules.given THEN rules.list ELSE <<>>

\* suggestMappings of form-detection-engine.js.
suggestMappings(formFields, rules) ==
    IF \E k \in 1 .. Len(formFields) :
          BestMatch(formFields[k], RulesLooped(rules), 1).threw
    THEN Threw
    ELSE [kind |-> "returned",
          suggestions |->
             [k \in 1 .. Len(formFields) |->
                 Suggestion(formFields[k],
                            BestMatch(formFields[k], RulesLooped(rules),
                                      1).bestMatch)],
          evaluated |->
             [k \in 1 .. Len(formFields) |->
                 BestMatch(formFields[k], RulesLooped(rules), 1).evaluated]]

\* The other implementation calls rule.fieldMatch.test(...) before it looks at
\* the kind of fieldMatch: for a function or a missing fieldMatch that call
\* throws a TypeError as soon as the field has a name, an id or a label.
TestThrows(field, rule) ==
    /\ rule.fieldMatch.kind # "pattern"
    /\ field.name # "" \/ field.id # "" \/ field.label # ""

\* mainMatch && typeMatches of the other implementation, when nothing threw.
RuleMatches_part003(field, rule) ==
    /\ IF rule.fieldMatch.kind = "function"
       THEN field \in rule.fieldMatch.fields
       ELSE \/ Test(rule.fieldMatch, field.name)
            \/ Test(rule.fieldMatch, field.id)
            \/ Test(rule.fieldMatch, field.label)
    /\ TypeMatchOk(field, rule)

RECURSIVE BestMatch_part003(_, _, _)
BestMatch_part003(field, rules, i) ==
    IF i > Len(rules)
    THEN [bestMatch |-> Null, evaluated |-> Len(rules), threw |-> FALSE]
    ELSE IF TestThrows(field, rules[i]) \/ PredicateThrows(field, rules[i])
         THEN [bestMatch |-> Null, evaluated |-> i, threw |-> TRUE]
         ELSE IF RuleMatches_part003(field, rules[i])
              THEN [bestMatch |-> Str(rules[i].suggest), evaluated |-> i,
                    threw |-> FALSE]
              ELSE BestMatch_part003(field, rules, i + 1)

\* suggestMappings of the other implementation.
suggestMappings_part003(formFields, rules) ==
    IF \E k \in 1 .. Len(formFields) :
          BestMatch_part003(formFields[k], RulesLooped(rules), 1).threw
    THEN Threw
    ELSE [kind |-> "returned",
          suggestions |->
             [k \in 1 .. Len(formFields) |->
                 Suggestion(formFields[k],
                            BestMatch_part003(formFields[k], RulesLooped(rules),
                                              1).bestMatch)],
          evaluated |->
             [k \in 1 .. Len(formFields) |->
                 BestMatch_part003(formFields[k], RulesLooped(rules), 1).evaluated]]

\* The arguments of one suggestMappings call, before the call.
InitSuggest ==
    /\ persisted = NoFile
    /\ batches = loadBatchState(persisted)
    /\ writeCalls = 0
    /\ writeErrors = 0
    /\ events = [id \in Ids |-> <<>>]
    /\ calls = <<>>
    /\ finalized = 0
    /\ lastError = NoError
    /\ statusLog = <<>>
    /\ held = NotHeld
    /\ retry = RetryIdle
    /\ mapped \in {[NotMapped EXCEPT !.formFields = f, !.rules = r] :
                      f \in FieldLists, r \in RulesArguments}
    /\ scan = NotScanned
    /\ ServicesIdle

\* suggestMappings(formFields, rules) of form-detection-engine.js.
SuggestMappings ==
    /\ mapped.impl = "none"
    /\ mapped' = [mapped EXCEPT
                     !.impl = "form-detection-engine.js",
                     !.result = suggestMappings(mapped.formFields, mapped.rules)]
    /\ UNCHANGED processorVars

\* suggestMappings(formFields, rules) of the other implementation.
SuggestMappings_part003 ==
    /\ mapped.impl = "none"
    /\ mapped' = [mapped EXCEPT
                     !.impl = "part_003",
                     !.result = suggestMappings_part003(mapped.formFields,
                                                        mapped.rules)]
    /\ UNCHANGED processorVars

NextSuggest == SuggestMappings \/ SuggestMappings_part003

\* One suggestMappings call, for every field list and rules argument and for
\* both implementations.
SpecSuggest == InitSuggest /\ [][NextSuggest]_vars

\* The arguments of one suggestMappings call whose rules may hold the throwing
\* predicate, before the call.
InitSuggestFaulty ==
    /\ InitIdle
    /\ mapped \in {[NotMapped EXCEPT !.formFields = f, !.rules = r] :
                      f \in FieldLists, r \in FaultyRulesArguments}
    /\ scan = NotScanned

\* ---------------------------------------------------------------- isHidden
\* computed.display === 'none' || computed.visibility === 'hidden' ||
\* computed.opacity === '0' || FORM_IGNORE_CLASSES.some(...) ||
\* (node.hasAttribute('aria-hidden') && node.getAttribute('aria-hidden') !== 'false')
Concealed(element) ==
    \/ element.display = "none"
    \/ element.visibility = "hidden"
    \/ element.opacity = "0"
    \/ \E cls \in FORM_IGNORE_CLASSES : cls \in element.classes
    \/ element.ariaHidden # Null /\ element.ariaHidden # Str("false")

RECURSIVE isHiddenFrom(_, _)
\* The while loop of form-detection-engine.js with `node` at the i-th element
\* of the chain: reading defaultView.getComputedStyle of a document without a
\* view throws a TypeError.
isHiddenFrom(el, i) ==
    IF i > Len(el.chain) THEN Returned(FALSE)
    ELSE IF ~el.view THEN Thrown
    ELSE IF Concealed(el.chain[i]) THEN Returned(TRUE)
    ELSE isHiddenFrom(el, i + 1)

\* isHidden of form-detection-engine.js: `if (node.nodeType !== 1) break`
\* leaves the loop at once for a node that is not an element.
isHidden(el) ==
    IF el.nodeType # 1 THEN Returned(FALSE) ELSE isHiddenFrom(el, 1)

RECURSIVE isHiddenFrom_part003(_, _)
\* The while loop of the other implementation: a node without ownerDocument
\* or defaultView counts as hidden.
isHiddenFrom_part003(el, i) ==
    IF i > Len(el.chain) THEN Returned(FALSE)
    ELSE IF ~el.view THEN Returned(TRUE)
    ELSE IF Concealed(el.chain[i]) THEN Returned(TRUE)
    ELSE isHiddenFrom_part003(el, i + 1)

\* isHidden of the other implementation.
isHidden_part003(el) ==
    IF el.nodeType # 1 THEN Returned(FALSE) ELSE isHiddenFrom_part003(el, 1)

\* The argument of one isHidden call, before the call.
InitHidden ==
    /\ InitIdle
    /\ mapped = NotMapped
    /\ scan \in {[NotScanned EXCEPT !.fn = "isHidden", !.input = el] : el \in Nodes(MaxDepth)}

\* isHidden(el) of form-detection-engine.js.
IsHidden ==
    /\ scan.fn = "isHidden"
    /\ scan.impl = "none"
    /\ scan' = [scan EXCEPT !.impl = "form-detection-engine.js",
                            !.result = isHidden(scan.input)]
    /\ UNCHANGED engineVars

\* isHidden(el) of the other implementation.
IsHidden_part003 ==
    /\ scan.fn = "isHidden"
    /\ scan.impl = "none"
    /\ scan' = [scan EXCEPT !.impl = "part_003",
                            !.result = isHidden_part003(scan.input)]
    /\ UNCHANGED engineVars

NextHidden == IsHidden \/ IsHidden_part003

\* One isHidden call, for every node of the model and both implementations.
SpecHidden == InitHidden /\ [][NextHidden]_vars

\* ---------------------------------------------------------------- detectForms
RECURSIVE TreeOf(_, _)
\* The tree an element lies in: 0 is the document's own tree, h the shadow tree
\* attached to element h.
TreeOf(dom, i) ==
    IF dom.elements[i].parent # 0 THEN TreeOf(dom, dom.elements[i].parent)
    ELSE dom.elements[i].host

RECURSIVE ChainOf(_, _)
\* The elements node.parentElement goes through from element i on: the
\* parentElement of the top element of a shadow tree is null.
ChainOf(dom, i) ==
    <<dom.elements[i].look>> \o
    (IF dom.elements[i].parent # 0 THEN ChainOf(dom, dom.elements[i].parent)
     ELSE <<>>)

\* Element i as the argument of isHidden.
NodeOf(dom, i) == [nodeType |-> 1, view |-> dom.view, chain |-> ChainOf(dom, i)]

\* root.querySelectorAll(tag): the elements with that tag in the tree of the
\* root, in tree order; elements of other (shadow) trees are not selected.
querySelectorAll(dom, root, tag) ==
    SelectSeq([i \in 1 .. Len(dom.elements) |-> i],
              LAMBDA i : TreeOf(dom, i) = root /\ dom.elements[i].tag = tag)

\* node.shadowRoot of the elements a TreeWalker over the tree of the root
\* visits: the elements of that tree which carry a shadow tree.
ShadowHosts(dom, root) ==
    SelectSeq([i \in 1 .. Len(dom.elements) |-> i],
              LAMBDA i : /\ TreeOf(dom, i) = root
                         /\ \E j \in 1 .. Len(dom.elements) :
                               dom.elements[j].host = i)

\* rootNode.createTreeWalker: a method of Document; a ShadowRoot has none.
HasTreeWalker(root) == root = 0

\* isHidden of the implementation.
isHiddenOf(impl, el) ==
    IF impl = "part_003" THEN isHidden_part003(el) ELSE isHidden(el)

RECURSIVE PushAll(_, _, _, _)
\* Faulty variant: every form is pushed, hidden or not.
PushAll(impl, dom, formElems, k) ==
    IF k > Len(formElems) THEN <<>>
    ELSE <<formElems[k]>> \o PushAll(impl, dom, formElems, k + 1)

RECURSIVE PushVisible(_, _, _, _)
\* formElems.forEach((form) => { if (!isHidden(form)) forms.push(form); })
\* from the k-th form on. An exception thrown by isHidden ends the whole
\* detectForms call; it is carried up to there as the entry 0.
PushVisible(impl, dom, formElems, k) ==
    IF k > Len(formElems) THEN <<>>
    ELSE LET hidden == isHiddenOf(impl, NodeOf(dom, formElems[k]))
         IN  IF hidden.kind = "threw" THEN <<0>>
             ELSE (IF hidden.value THEN <<>> ELSE <<formElems[k]>>) \o
                  PushVisible(impl, dom, formElems, k + 1)

RECURSIVE detectFormsInShadowDOM(_, _, _)
RECURSIVE WalkFrom(_, _, _, _)
\* detectFormsInShadowDOM(rootNode): nothing for a root without
\* createTreeWalker, else what the walk over the root's tree collects.
detectFormsInShadowDOM(impl, dom, rootNode) ==
    IF ~HasTreeWalker(rootNode) THEN <<>>
    ELSE WalkFrom(impl, dom, ShadowHosts(dom, rootNode), 1)

\* The do-while loop from the k-th element with a shadowRoot on: the visible
\* forms of that shadow tree, then the result of the recursive call on it.
WalkFrom(impl, dom, hosts, k) ==
    IF k > Len(hosts) THEN <<>>
    ELSE PushVisible(impl, dom, querySelectorAll(dom, hosts[k], "form"), 1) \o
         detectFormsInShadowDOM(impl, dom, hosts[k]) \o
         WalkFrom(impl, dom, hosts, k + 1)

RECURSIVE Unique(_)
\* Array.from(new Set(forms)): every entry once, at its first position.
Unique(forms) ==
    IF forms = <<>> THEN <<>>
    ELSE LET front == Unique(SubSeq(forms, 1, Len(forms) - 1))
             last == forms[Len(forms)]
         IN  IF \E k \in 1 .. Len(front) : front[k] = last THEN front
             ELSE Append(front, last)

\* detectForms(documentContext) of the implementation.
detectForms(impl, dom) ==
    LET forms == PushVisible(impl, dom, querySelectorAll(dom, 0, "form"), 1) \o
                 detectFormsInShadowDOM(impl, dom, 0)
    IN  IF \E k \in 1 .. Len(forms) : forms[k] = 0 THEN Thrown
        ELSE Returned(Unique(forms))

\* The argument of one detectForms call, before the call.
InitDetect ==
    /\ InitIdle
    /\ mapped = NotMapped
    /\ scan \in {[NotScanned EXCEPT !.fn = "detectForms", !.input = dom] :
                    dom \in Documents(MaxNodes)}

\* detectForms(documentContext) of form-detection-engine.js.
DetectForms ==
    /\ scan.fn = "detectForms"
    /\ scan.impl = "none"
    /\ scan' = [scan EXCEPT
                   !.impl = "form-detection-engine.js",
                   !.result = detectForms("form-detection-engine.js", scan.input)]
    /\ UNCHANGED engineVars

\* detectForms(documentContext) of the other implementation.
DetectForms_part003 ==
    /\ scan.fn = "detectForms"
    /\ scan.impl = "none"
    /\ scan' = [scan EXCEPT !.impl = "part_003",
                            !.result = detectForms("part_003", scan.input)]
    /\ UNCHANGED engineVars

NextDetect == DetectForms \/ DetectForms_part003

\* One detectForms call, for every document of the model and both
\* implementations.
SpecDetect == InitDetect /\ [][NextDetect]_vars

\* ---------------------------------------------------------------- extractFormMetadata
\* String.prototype.toLowerCase on the type and tag names of the model.
toLowerCase(s) ==
    CASE s = "INPUT" -> "input"
      [] s = "OBJECT" -> "object"
      [] OTHER -> s

\* Faulty variant: no control is skipped for want of a name and an id.
NamelessNever(el) == FALSE

\* if (!el.name && !el.id) return
Nameless(el) == el.name = "" /\ el.id = ""

\* The FieldDescriptor pushed for the k-th control; node is the control.
FieldOf(el, k) ==
    [name |-> el.name, id |-> el.id,
     type |-> toLowerCase(IF el.type # "" THEN el.type ELSE el.tagName),
     node |-> k]

RECURSIVE ExtractFrom(_, _, _)
\* Array.from(formElement.elements || []).forEach(...) from the k-th control
\* on: a control without name and id, a hidden one, a disabled one is skipped.
\* The collection holds no control twice, so usedFields.has(el) is false. An
\* exception thrown by isHidden ends the loop and the call.
ExtractFrom(impl, formElement, k) ==
    IF k > Len(formElement.elements) THEN [threw |-> FALSE, fields |-> <<>>]
    ELSE LET el == formElement.elements[k]
             rest == ExtractFrom(impl, formElement, k + 1)
             hidden == isHiddenOf(impl, [nodeType |-> 1, view |-> formElement.view,
                                         chain |-> <<el.look, formElement.look>>])
         IN  IF Nameless(el) THEN rest
             ELSE IF hidden.kind = "threw" THEN [threw |-> TRUE, fields |-> <<>>]
             ELSE IF hidden.value \/ el.disabled THEN rest
             ELSE [threw |-> rest.threw,
                   fields |-> <<FieldOf(el, k)>> \o rest.fields]

\* extractFormMetadata(formElement) of the implementation: the descriptor's
\* node and fields.
extractFormMetadata(impl, formElement) ==
    LET loop == ExtractFrom(impl, formElement, 1)
    IN  IF loop.threw THEN Thrown
        ELSE Returned([node |-> formElement, fields |-> loop.fields])

\* The argument of one extractFormMetadata call, before the call.
InitExtract ==
    /\ InitIdle
    /\ mapped = NotMapped
    /\ scan \in {[NotScanned EXCEPT !.fn = "extractFormMetadata", !.input = f] :
                    f \in FormElements(MaxControls)}

\* extractFormMetadata(formElement) of form-detection-engine.js.
ExtractFormMetadata ==
    /\ scan.fn = "extractFormMetadata"
    /\ scan.impl = "none"
    /\ scan' = [scan EXCEPT
                   !.impl = "form-detection-engine.js",
                   !.result = extractFormMetadata("form-detection-engine.js",
                                                  scan.input)]
    /\ UNCHANGED engineVars

\* extractFormMetadata(formElement) of the other implementation.
ExtractFormMetadata_part003 ==
    /\ scan.fn = "extractFormMetadata"
    /\ scan.impl = "none"
    /\ scan' = [scan EXCEPT
                   !.impl = "part_003",
                   !.result = extractFormMetadata("part_003", scan.input)]
    /\ UNCHANGED engineVars

NextExtract == ExtractFormMetadata \/ ExtractFormMetadata_part003

\* One extractFormMetadata call, for every form of the model and both
\* implementations.
SpecExtract == InitExtract /\ [][NextExtract]_vars

\* ---------------------------------------------------------------- fallbackVisualDetection
\* An element is selected by the s-th selector of FORM_FIELD_SELECTORS.
Selects(s, el) ==
    CASE s = 1 -> el.tagName = "INPUT" /\ el.type # "hidden" /\ ~el.disabled
      [] s = 2 -> el.tagName = "SELECT" /\ ~el.disabled
      [] s = 3 -> el.tagName = "TEXTAREA" /\ ~el.disabled
      [] s = 4 -> el.editable

RECURSIVE Controls(_, _)
\* FORM_FIELD_SELECTORS.forEach(sel => controls.push(...querySelectorAll(sel)))
\* from the s-th selector on: the elements each selector selects, in document
\* order, one selector after the other.
Controls(domSnapshot, s) ==
    IF s > Len(FORM_FIELD_SELECTORS) THEN <<>>
    ELSE SelectSeq([i \in 1 .. Len(domSnapshot.elements) |-> i],
                   LAMBDA i : Selects(s, domSnapshot.elements[i])) \o
         Controls(domSnapshot, s + 1)

\* isHidden(el) for the i-th element of the snapshot.
HiddenControl(impl, domSnapshot, i) ==
    isHiddenOf(impl, [nodeType |-> 1, view |-> domSnapshot.view,
                      chain |-> <<domSnapshot.elements[i].look>>])

\* controls.filter((el) => !isHidden(el) && !el.disabled), when isHidden does
\* not throw.
VisibleControls(impl, domSnapshot, controls) ==
    SelectSeq(controls,
              LAMBDA i : /\ ~HiddenControl(impl, domSnapshot, i).value
                         /\ ~domSnapshot.elements[i].disabled)

RECURSIVE Sorted(_, _)
\* visibleControls.sort((a, b) => rectA.top - rectB.top): ascending top, and
\* (the sort is stable) equal tops in their former order.
Sorted(domSnapshot, controls) ==
    IF controls = <<>> THEN <<>>
    ELSE LET front == Sorted(domSnapshot, SubSeq(controls, 1, Len(controls) - 1))
             last == controls[Len(controls)]
             Before(i) == domSnapshot.elements[i].rect.top <=
                          domSnapshot.elements[last].rect.top
         IN  SelectSeq(front, Before) \o <<last>> \o
             SelectSeq(front, LAMBDA i : ~Before(i))

\* Math.abs
Abs(n) == IF n < 0 THEN -n ELSE n

\* Faulty variant: a control exactly the threshold away still joins.
NearInclusive(top, lastBottom) == Abs(top - lastBottom) <= ProximityThreshold

\* Math.abs(rect.top - lastBottom) < 60
Near(top, lastBottom) == Abs(top - lastBottom) < ProximityThreshold

RECURSIVE ClusterFrom(_, _, _, _, _, _)
\* visibleControls.forEach(...) from the k-th control on and the push after
\* the loop; lastBottom is null exactly at the first control.
ClusterFrom(domSnapshot, visibleControls, k, cluster, lastBottom, clusterForms) ==
    IF k > Len(visibleControls)
    THEN IF Len(cluster) >= 2 THEN Append(clusterForms, cluster) ELSE clusterForms
    ELSE LET rect == domSnapshot.elements[visibleControls[k]].rect
         IN  IF k = 1 \/ Near(rect.top, lastBottom)
             THEN ClusterFrom(domSnapshot, visibleControls, k + 1,
                              Append(cluster, visibleControls[k]), rect.bottom,
                              clusterForms)
             ELSE ClusterFrom(domSnapshot, visibleControls, k + 1,
                              <<visibleControls[k]>>, rect.bottom,
                              IF Len(cluster) >= 2 THEN Append(clusterForms, cluster)
                              ELSE clusterForms)

\* The synthetic descriptor built for the cluster at index idx (counted from
\* 0): form-detection-engine.js leaves id and name empty, the other
\* implementation generates them from the index.
SyntheticForm(impl, domSnapshot, clusterEls, idx) ==
    [node |-> Null,
     id |-> IF impl = "part_003" THEN "synthetic-form-" \o ToString(idx) ELSE "",
     name |-> IF impl = "part_003" THEN "syntheticForm" \o ToString(idx) ELSE "",
     method |-> IF impl = "part_003" THEN "POST" ELSE "",
     synthetic |-> TRUE,
     fields |-> [p \in 1 .. Len(clusterEls) |->
                    FieldOf(domSnapshot.elements[clusterEls[p]], clusterEls[p])]]

\* fallbackVisualDetection(domSnapshot) of the implementation.
fallbackVisualDetection(impl, domSnapshot) ==
    LET controls == Controls(domSnapshot, 1)
    IN  IF \E k \in 1 .. Len(controls) :
              HiddenControl(impl, domSnapshot, controls[k]).kind = "threw"
        THEN Thrown
        ELSE LET visibleControls ==
                     Sorted(domSnapshot,
                            VisibleControls(impl, domSnapshot, controls))
                 clusterForms ==
                     ClusterFrom(domSnapshot, visibleControls, 1, <<>>, 0, <<>>)
             IN  Returned([c \in 1 .. Len(clusterForms) |->
                              SyntheticForm(impl, domSnapshot, clusterForms[c],
                                            c - 1)])

\* The argument of one fallbackVisualDetection call, before the call.
InitFallback ==
    /\ InitIdle
    /\ mapped = NotMapped
    /\ scan \in {[NotScanned EXCEPT !.fn = "fallbackVisualDetection", !.input = s] :
                    s \in Snapshots(MaxSnapshot)}

\* fallbackVisualDetection(domSnapshot) of form-detection-engine.js.
FallbackVisualDetection ==
    /\ scan.fn = "fallbackVisualDetection"
    /\ scan.impl = "none"
    /\ scan' = [scan EXCEPT
                   !.impl = "form-detection-engine.js",
                   !.result = fallbackVisualDetection("form-detection-engine.js",
                                                      scan.input)]
    /\ UNCHANGED engineVars

\* fallbackVisualDetection(domSnapshot) of the other implementation.
FallbackVisualDetection_part003 ==
    /\ scan.fn = "fallbackVisualDetection"
    /\ scan.impl = "none"
    /\ scan' = [scan EXCEPT
                   !.impl = "part_003",
                   !.result = fallbackVisualDetection("part_003", scan.input)]
    /\ UNCHANGED engineVars

NextFallback == FallbackVisualDetection \/ FallbackVisualDetection_part003

\* One fallbackVisualDetection call, for every snapshot of the model and both
\* implementations.
SpecFallback == InitFallback /\ [][NextFallback]_vars

\* The argument of one fallbackVisualDetection call on a page whose controls
\* lie at varied distances from each other.
InitCluster ==
    /\ InitIdle
    /\ mapped = NotMapped
    /\ scan \in {[NotScanned EXCEPT !.fn = "fallbackVisualDetection", !.input = s] :
                    s \in ClusterSnapshots(MaxSnapshot)}

\* One fallbackVisualDetection call on such a page, for both implementations.
SpecCluster == InitCluster /\ [][NextFallback]_vars

\* ---------------------------------------------------------------- failure isolation
\* A suggestMappings call whose rules may hold a throwing predicate, or an
\* extractFormMetadata call and a suggestMappings call without fields, each of
\* either implementation.
InitIsolation == InitSuggestFaulty \/ InitExtract

NextIsolation == NextSuggest \/ NextExtract

SpecIsolation == InitIsolation /\ [][NextIsolation]_vars

\* ---------------------------------------------------------------- retryFailedSubmissions
\* retryPolicy.maxAttempts || 3: a maxAttempts that is left out or 0 is falsy.
maxAttemptsOf(retryPolicy) ==
    IF retryPolicy.given /\ retryPolicy.maxAttempts # 0
    THEN retryPolicy.maxAttempts
    ELSE DefaultMaxAttempts

\* failure.attempt || 1
attemptOf(failure) == IF failure.attempt # 0 THEN failure.attempt ELSE 1

RECURSIVE EnterRecord(_, _)
RECURSIVE WhileHead(_)

\* The head of `while (attempt <= maxAttempts && !succeeded)`: either the
\* function suspends on delay(retryDelay), or the loop is over, a record that
\* did not succeed is pushed onto newFailures, and the for loop moves on.
WhileHead(r) ==
    IF r.attempt <= maxAttemptsOf(r.retryPolicy) /\ ~ r.succeeded
    THEN [r EXCEPT !.pc = "delay"]
    ELSE EnterRecord(
             IF r.succeeded THEN r
             ELSE [r EXCEPT !.newFailures =
                      Append(@, [r.failures[r.k] EXCEPT !.error = r.lastError,
                                                        !.attempt = r.attempt])],
             r.k + 1)

\* The head of `for (const failure of failures)` at record k: the locals are
\* set from the record, or, past the last record, the function returns.
EnterRecord(r, k) ==
    IF k > Len(r.failures)
    THEN [r EXCEPT !.pc = "returned",
                   !.returned = [succeeded |-> r.finalResults,
                                 failures |-> r.newFailures]]
    ELSE WhileHead([r EXCEPT !.k = k,
                             !.attempt = attemptOf(r.failures[k]),
                             !.lastError = r.failures[k].error,
                             !.succeeded = FALSE])

\* retryFailedSubmissions(failures, retryPolicy) up to its first await (or,
\* with nothing to retry, to its return).
RetryFailedSubmissions(failures, retryPolicy) ==
    /\ retry.pc = "idle"
    /\ retry' = EnterRecord([RetryIdle EXCEPT
                                !.failures = failures,
                                !.retryPolicy = retryPolicy,
                                !.outcomes = [k \in 1 .. Len(failures) |-> <<>>],
                                !.invocations = [k \in 1 .. Len(failures) |-> 0]],
                            1)
    /\ UNCHANGED batchVars

\* delay(retryDelay) resolves: processForm(failure.profile, failure.row) is
\* called and the function suspends on its promise.
DelayElapsed ==
    /\ retry.pc = "delay"
    /\ retry' = [retry EXCEPT !.pc = "processForm", !.invocations[retry.k] = @ + 1]
    /\ UNCHANGED batchVars

\* The processForm promise settles with `outcome`: the try branch pushes the
\* result, the catch branch reads err.message (which throws for null and
\* undefined, and then the function rejects) and counts the attempt.
RetrySettled(outcome) ==
    /\ retry.pc = "processForm"
    /\ LET f == retry.failures[retry.k]
           settled == [retry EXCEPT !.outcomes[retry.k] = Append(@, outcome)]
       IN  retry' =
              IF outcome = "success"
              THEN WhileHead([settled EXCEPT
                                 !.finalResults = Append(@, FormResult(f.profile, f.row)),
                                 !.succeeded = TRUE])
              ELSE IF outcome = "nullish"
              THEN [settled EXCEPT !.pc = "rejected"]
              ELSE WhileHead([settled EXCEPT !.lastError = ErrMessage(outcome),
                                             !.attempt = @ + 1])
    /\ UNCHANGED batchVars

NextRetry ==
    \/ \E attempts \in FailureLists, retryPolicy \in RetryPolicies :
          RetryFailedSubmissions(FailureListOf(attempts), retryPolicy)
    \/ DelayElapsed
    \/ \E o \in ProcessorOutcomes : RetrySettled(o)

\* retryFailedSubmissions alone, for every list, policy and processor.
SpecRetry == Init /\ [][NextRetry]_vars

\* Every synchronous stretch of the module, with the environment's choices:
\* whether a write of the state file succeeds, how a processForm promise settles.
NextWith(WriteOk, Outcomes, Keep) ==
    \/ \E p \in Profiles, cfg \in BatchConfigs, id \in Ids, ok \in WriteOk :
          ScheduleBatchRun(p, cfg, id, ok)
    \/ \E p \in Profiles, rows \in InputRowLists, ok1 \in WriteOk, ok2 \in WriteOk :
          ExecuteBatch(p, rows, ok1, ok2)
    \/ \E c \in 1 .. MaxBatches, o \in Outcomes, ok1 \in WriteOk, ok2 \in WriteOk :
          RowSettled(c, o, ok1, ok2)
    \/ \E id \in Ids, keep \in Keep : TrackBatchProgress(id, keep)
    \/ \E id \in Ids, s \in Summaries, ok \in WriteOk : HandleBatchCompletion(id, s, ok)

Next == NextWith({TRUE}, ProcessorOutcomes, {FALSE})

\* The module on a disk that takes every write.
Spec == Init /\ [][Next]_vars

\* The module on a disk where up to MaxWriteErrors writes of the state file fail,
\* with a processor that resolves or rejects with an Error.
NextDisk == NextWith(BOOLEAN, {"success", "Error"}, {FALSE})

SpecDisk == Init /\ [][NextDisk]_vars

\* The module with a caller that keeps one trackBatchProgress result and
\* writes to it, on a disk that takes every write and with a processor that
\* resolves or rejects with an Error.
NextTrack ==
    \/ NextWith({TRUE}, {"success", "Error"}, BOOLEAN)
    \/ \E field \in ProgressFields : CallerChangesResult(field)

SpecTrack == Init /\ [][NextTrack]_vars

\* The module on a disk where up to MaxWriteErrors writes of the state file fail,
\* with a processor that resolves or rejects with anything.
NextCrash == NextWith(BOOLEAN, ProcessorOutcomes, {FALSE})

SpecCrash == Init /\ [][NextCrash]_vars

\* ---------------------------------------------------------------- notifications
\* Every variable before the first call of a service.
InitServices ==
    /\ InitIdle
    /\ mapped = NotMapped
    /\ scan = NotScanned

\* options.userId || (options.data && options.data.userId) || null
AddressOf(optionsUserId, dataUserId) ==
    IF optionsUserId # "" THEN optionsUserId ELSE dataUserId

\* Faulty variant: every stream is given every notification.
ForAnyStream(notification, userId) == TRUE

\* onNotify: !notification.userId || notification.userId === userId
ForStream(notification, userId) ==
    notification.userId = "" \/ notification.userId = userId

\* The stream streamRealTimeNotifications returns: the 'data' events it has
\* emitted (by notification id), the 'close' events it has emitted, the
\* cleanedUp flag and the timer of its closure, and whether the listeners put
\* on it ('close' -> clearTimeout, and the consumer's) are still on it.
NewStream(userId) ==
    [userId |-> userId, cleanedUp |-> FALSE, timeout |-> "armed", data |-> <<>>,
     closeEvents |-> 0, listening |-> TRUE]

RECURSIVE Dispatch(_, _, _)
\* this.emit('notification', notification): the onNotify listeners are called
\* in the order of their registration.
Dispatch(streams, listeners, notification) ==
    IF listeners = <<>> THEN streams
    ELSE LET s == Head(listeners)
         IN  Dispatch(IF ForStream(notification, streams[s].userId)
                      THEN [streams EXCEPT ![s].data = Append(@, notification.id)]
                      ELSE streams,
                      Tail(listeners), notification)

\* this.removeListener('notification', onNotify) for the onNotify of stream s
RemoveListener(listeners, s) == SelectSeq(listeners, LAMBDA x : x # s)

\* Faulty variant: cleanup without the cleanedUp flag.
cleanupEveryTime(m, s) ==
    LET stream == m.streams[s]
    IN  [m EXCEPT !.listeners = RemoveListener(@, s),
                  !.streams[s] =
                      [stream EXCEPT
                          !.cleanedUp = TRUE,
                          !.closeEvents = @ + 1,
                          !.timeout = IF stream.listening /\ @ = "armed"
                                      THEN "cleared" ELSE @,
                          !.listening = FALSE]]

\* cleanup of stream s: once only, removeListener, stream.emit('close') (its
\* listener calls clearTimeout), stream.removeAllListeners().
cleanup(m, s) ==
    LET stream == m.streams[s]
    IN  IF stream.cleanedUp THEN m
        ELSE [m EXCEPT !.listeners = RemoveListener(@, s),
                       !.streams[s] =
                           [stream EXCEPT
                               !.cleanedUp = TRUE,
                               !.closeEvents = @ + 1,
                               !.timeout = IF stream.listening /\ @ = "armed"
                                           THEN "cleared" ELSE @,
                               !.listening = FALSE]]

\* sendNotification(message, options): the notification is stored and emitted.
\* The id is its place among the notifications sent.
SendNotification(optionsUserId, dataUserId) ==
    /\ Len(manager.notifications) < MaxSent
    /\ LET notification == [id |-> Len(manager.notifications) + 1,
                            userId |-> AddressOf(optionsUserId, dataUserId)]
       IN  manager' = [manager EXCEPT
                          !.notifications = Append(@, notification),
                          !.streams = Dispatch(@, manager.listeners, notification)]
    /\ UNCHANGED <<coreVars, statsDb, debounce>>

\* streamRealTimeNotifications(userId, timeoutMs)
StreamRealTimeNotifications(userId) ==
    /\ Len(manager.streams) < MaxStreams
    /\ manager' = [manager EXCEPT
                      !.streams = Append(@, NewStream(userId)),
                      !.listeners = Append(@, Len(manager.streams) + 1)]
    /\ UNCHANGED <<coreVars, statsDb, debounce>>

\* stream.close()
Close(s) ==
    /\ s \in 1 .. Len(manager.streams)
    /\ manager' = cleanup(manager, s)
    /\ UNCHANGED <<coreVars, statsDb, debounce>>

\* The timer of stream s expires: setTimeout calls cleanup.
TimeoutElapses(s) ==
    /\ s \in 1 .. Len(manager.streams)
    /\ manager.streams[s].timeout = "armed"
    /\ manager' = cleanup([manager EXCEPT !.streams[s].timeout = "fired"], s)
    /\ UNCHANGED <<coreVars, statsDb, debounce>>

\* The consumer of stream s calls stream.removeAllListeners(), which takes the
\* 'close' listener that clears the timer off the stream as well.
RemoveAllListeners(s) ==
    /\ s \in 1 .. Len(manager.streams)
    /\ manager.streams[s].listening
    /\ manager' = [manager EXCEPT !.streams[s].listening = FALSE]
    /\ UNCHANGED <<coreVars, statsDb, debounce>>

NextNotify ==
    \/ \E o \in UserIdArguments, d \in UserIdArguments : SendNotification(o, d)
    \/ \E u \in UserIds : StreamRealTimeNotifications(u)
    \/ \E s \in 1 .. MaxStreams : Close(s)
    \/ \E s \in 1 .. MaxStreams : TimeoutElapses(s)
    \/ \E s \in 1 .. MaxStreams : RemoveAllListeners(s)

\* The notification manager with its senders and the consumers of its
\* streams.
SpecNotify == InitServices /\ [][NextNotify]_vars

\* ---------------------------------------------------------------- aggregateStatUpdate
\* validateFormId: the sanitised id, "" (null) for a string with < or >.
validateFormId(formId) == IF formId = "<form>" THEN "" ELSE formId

\* stats[formId] read: the own property, else what the object inherits from
\* Object.prototype (the function Object under 'constructor'), else undefined.
Property(stats, formId) ==
    IF stats[formId].kind # "absent" THEN stats[formId]
    ELSE IF formId = "constructor" THEN ObjectFunction
    ELSE NoProperty

\* stats[formId] = stats[formId] || { submission: 0, interaction: 0, ... }
Claimed(stats, formId) ==
    [stats EXCEPT ![formId] = IF Property(stats, formId).kind = "absent"
                              THEN ZeroCounters
                              ELSE Property(stats, formId)]

\* stats[formId][eventType] = (stats[formId][eventType] || 0) + 1 on the
\* local stats object, when stats[formId] is an object of counters.
Counted(stats, formId, eventType) ==
    IF stats[formId].kind = "counters"
    THEN [stats EXCEPT ![formId][eventType] = @ + 1]
    ELSE stats

\* The same assignment when stats[formId] is the function Object: the property
\* is set on the function.
CountedOnObject(object, stats, formId, eventType) ==
    IF stats[formId].kind = "function"
    THEN [object EXCEPT ![eventType] = @ + 1]
    ELSE object

\* JSON.stringify(stats, null, 2): a property whose value is a function is
\* left out.
stringifyStats(stats) ==
    [k \in StatsKeys |-> IF stats[k].kind = "function" THEN NoProperty ELSE stats[k]]

\* One aggregateStatUpdate activation.
NewUpdate(eventType, formId) ==
    [eventType |-> eventType,
     formId |-> formId,
     pc |-> IF formId = "" THEN "ignored" ELSE "queued",
     stats |-> EmptyStats]

\* Faulty variant: no lock, the callback starts whatever the earlier calls do.
MayStartAtOnce(updates, c) == TRUE

\* statsDbWriteLock.then(callback): the callback of call c starts when the
\* promise of the call queued before it is fulfilled, that is when every
\* earlier callback has returned.
MayStart(updates, c) ==
    \A d \in 1 .. c - 1 : updates[d].pc \in {"ignored", "done"}

\* The callback from the assignment of stats[formId] to its next await or its
\* return, for the stats it has read.
Modified(db, c, stats) ==
    LET call == db.calls[c]
        claimed == Claimed(stats, call.formId)
    IN  IF call.eventType \notin CountedTypes
        THEN [db EXCEPT !.calls[c].pc = "done", !.calls[c].stats = claimed]
        ELSE [db EXCEPT
                 !.calls[c].pc = "writing",
                 !.calls[c].stats = Counted(claimed, call.formId, call.eventType),
                 !.object = CountedOnObject(@, claimed, call.formId, call.eventType)]

\* aggregateStatUpdate(eventType, formId) up to its await: an invalid formId
\* is ignored, a valid one puts the callback on the lock.
AggregateStatUpdate(eventType, formId) ==
    /\ Len(statsDb.calls) < MaxUpdates
    /\ statsDb' = [statsDb EXCEPT
                      !.calls = Append(@, NewUpdate(eventType, validateFormId(formId)))]
    /\ UNCHANGED <<coreVars, manager, debounce>>

\* The callback of call c starts: fs.existsSync, then the read is awaited or,
\* without a file, the stats are modified and the write is awaited.
StartUpdate(c) ==
    /\ c \in 1 .. Len(statsDb.calls)
    /\ statsDb.calls[c].pc = "queued"
    /\ MayStart(statsDb.calls, c)
    /\ statsDb' = IF statsDb.file.kind = "json"
                  THEN [statsDb EXCEPT !.calls[c].pc = "reading"]
                  ELSE Modified(statsDb, c, EmptyStats)
    /\ UNCHANGED <<coreVars, manager, debounce>>

\* fs.promises.readFile settles for call c: with the content of the file, or
\* with an error, after which stats = {}.
ReadSettled(c, ok) ==
    /\ c \in 1 .. Len(statsDb.calls)
    /\ statsDb.calls[c].pc = "reading"
    /\ ok \/ statsDb.errors < MaxStatErrors
    /\ statsDb' = IF ok
                  THEN Modified(statsDb, c, statsDb.file.stats)
                  ELSE Modified([statsDb EXCEPT !.errors = @ + 1], c, EmptyStats)
    /\ UNCHANGED <<coreVars, manager, debounce>>

\* fs.promises.writeFile settles for call c: the file holds the JSON of the
\* call's stats, or the write failed and the error is logged.
WriteSettled(c, ok) ==
    /\ c \in 1 .. Len(statsDb.calls)
    /\ statsDb.calls[c].pc = "writing"
    /\ ok \/ statsDb.errors < MaxStatErrors
    /\ statsDb' = IF ok
                  THEN [statsDb EXCEPT
                           !.file = StatsFile(stringifyStats(statsDb.calls[c].stats)),
                           !.calls[c].pc = "done"]
                  ELSE [statsDb EXCEPT !.errors = @ + 1, !.calls[c].pc = "done"]
    /\ UNCHANGED <<coreVars, manager, debounce>>

NextStats ==
    \/ \E e \in EventTypeArguments, f \in FormIdArguments : AggregateStatUpdate(e, f)
    \/ \E c \in 1 .. MaxUpdates : StartUpdate(c)
    \/ \E c \in 1 .. MaxUpdates, ok \in BOOLEAN : ReadSettled(c, ok)
    \/ \E c \in 1 .. MaxUpdates, ok \in BOOLEAN : WriteSettled(c, ok)

\* The analytics module with callers that do not wait for one another.
SpecStats == InitServices /\ [][NextStats]_vars

\* ---------------------------------------------------------------- debounceAsync
\* Faulty variant: runner without the pending flag.
NeverBlocked(pending) == FALSE

\* runner: if (pending) return
Blocked(pending) == pending

\* The returned function is called: lastArgs = args (the arguments of the
\* trigger, here its number), clearTimeout(t), t = setTimeout(runner, delay).
Trigger ==
    /\ debounce.triggers < MaxTriggers
    /\ debounce' = [debounce EXCEPT !.triggers = @ + 1,
                                    !.lastArgs = debounce.triggers + 1,
                                    !.t = "armed"]
    /\ UNCHANGED <<coreVars, manager, statsDb>>

\* The timer expires and calls runner: it returns when pending is set, else it
\* sets pending and calls fn with lastArgs, and waits for the promise.
TimerExpires ==
    /\ debounce.t = "armed"
    /\ debounce' =
          IF Blocked(debounce.pending)
          THEN [debounce EXCEPT !.t = "none"]
          ELSE [debounce EXCEPT
                   !.t = "none",
                   !.pending = TRUE,
                   !.executions = Append(@, [args |-> debounce.lastArgs,
                                             state |-> "running"])]
    /\ UNCHANGED <<coreVars, manager, statsDb>>

\* The promise of execution e is fulfilled: runner goes on with pending = false.
Fulfilled(e) ==
    /\ e \in 1 .. Len(debounce.executions)
    /\ debounce.executions[e].state = "running"
    /\ debounce' = [debounce EXCEPT !.executions[e].state = "fulfilled",
                                    !.pending = FALSE]
    /\ UNCHANGED <<coreVars, manager, statsDb>>

\* The promise of execution e is rejected: the await in runner throws, runner
\* ends there and pending keeps its value.
Rejected(e) ==
    /\ e \in 1 .. Len(debounce.executions)
    /\ debounce.executions[e].state = "running"
    /\ debounce' = [debounce EXCEPT !.executions[e].state = "rejected"]
    /\ UNCHANGED <<coreVars, manager, statsDb>>

NextDebounce ==
    \/ Trigger
    \/ TimerExpires
    \/ \E e \in 1 .. MaxTriggers : Fulfilled(e)
    \/ \E e \in 1 .. MaxTriggers : Rejected(e)

\* One debounced function with its callers, its timer and the wrapped
\* function.
SpecDebounce == InitServices /\ [][NextDebounce]_vars

\* The same where an armed timer expires in the end and every execution of
\* the wrapped function settles in the end.
SpecDebounceFair ==
    /\ InitServices
    /\ [][NextDebounce]_vars
    /\ WF_vars(TimerExpires)
    /\ WF_vars(\E e \in 1 .. MaxTriggers : Fulfilled(e) \/ Rejected(e))

\* ================================================================ properties
Terminal == {"completed", "failed"}

Positions == 1 .. Len(batches)

CallIds == 1 .. Len(calls)

\* The rows of call c whose processor has rejected, whatever it rejected with.
FailedRows(call) == {j \in 1 .. Len(call.outcomes) : call.outcomes[j] # "success"}

LegalTransition(from, to) ==
    \/ from = to
    \/ from = "scheduled" /\ to = "running"
    \/ from = "running" /\ to \in Terminal

\* C1: a batch's status changes only scheduled -> running, running -> completed
\* or running -> failed, in every step of every interleaving of the operations.
C1_StatusOnlyForward ==
    \A i \in 1 .. Len(statusLog) : \A j \in 1 .. Len(statusLog[i]) - 1 :
        LegalTransition(statusLog[i][j], statusLog[i][j + 1])

\* C2: in every reachable state a completed batch has no failures and a failed
\* batch has at least one.
C2_StatusMatchesFailures ==
    \A i \in Positions :
        /\ batches[i].status = "completed" => Len(batches[i].failures) = 0
        /\ batches[i].status = "failed" => Len(batches[i].failures) > 0

\* Call c resolves in this step.
Resolves(c) ==
    /\ c \in 1 .. Len(calls')
    /\ calls'[c].pc = "resolved"
    /\ c \in CallIds => calls[c].pc # "resolved"

\* C3: when executeBatch resolves for n rows of which k failed, the batch has
\* progress {total: n, processed: n, failed: k, succeeded: n - k}, n - k results
\* and k failures are returned, and the status is completed for k = 0 and
\* failed for k >= 1.
C3_BatchAccounting ==
    [][\A c \in 1 .. MaxBatches :
          Resolves(c) =>
              LET call == calls'[c]
                  b == batches'[call.batch]
                  n == Len(call.inputRows)
                  k == Cardinality(FailedRows(call))
              IN  /\ b.progress = [total |-> n, processed |-> n,
                                   failed |-> k, succeeded |-> n - k]
                  /\ Len(call.returned.results) = n - k
                  /\ Len(call.returned.failures) = k
                  /\ call.returned.batchId = b.id
                  /\ b.status = IF k = 0 THEN "completed" ELSE "failed"]_vars

\* A call has resolved for two rows of which exactly one failed, and its batch
\* is still as the call left it.
C3_Witness ==
    \E c \in CallIds :
        /\ calls[c].pc = "resolved"
        /\ Len(calls[c].inputRows) = 2
        /\ Cardinality(FailedRows(calls[c])) = 1
        /\ batches[calls[c].batch].status = "failed"
        /\ batches[calls[c].batch].progress.succeeded = 1

ConsistentCounters(progress) ==
    /\ progress.processed = progress.succeeded + progress.failed
    /\ progress.processed <= progress.total

\* C4: every progress value another caller can see (the registry between two
\* synchronous stretches, hence every trackBatchProgress result; every progress
\* event payload; every persisted state) has processed = succeeded + failed and
\* processed <= total.
C4_CountersConsistent ==
    /\ \A i \in Positions : ConsistentCounters(batches[i].progress)
    /\ \A id \in Ids :
          trackBatchProgress(batches, id) # Null =>
              ConsistentCounters(trackBatchProgress(batches, id))
    /\ \A id \in Ids : \A j \in 1 .. Len(events[id]) :
          events[id][j].name = "progress" => ConsistentCounters(events[id][j].payload)
    /\ \A i \in 1 .. Len(persisted.entries) :
          ConsistentCounters(persisted.entries[i].progress)

\* executeBatch is suspended on its second row after a first row that failed,
\* and the progress event of the first row has been emitted and persisted.
C4_Witness ==
    \E c \in CallIds :
        /\ calls[c].pc = "awaiting"
        /\ Len(calls[c].outcomes) = 1
        /\ calls[c].outcomes[1] = "Error"
        /\ batches[calls[c].batch].progress.failed = 1
        /\ \E j \in 1 .. Len(events[batches[calls[c].batch].id]) :
              events[batches[calls[c].batch].id][j].name = "progress"
        /\ persisted.kind = "json"
        /\ persisted.entries = batches

\* C5: within one executeBatch call the processor is invoked exactly once per
\* row, in input order, and never while the previous invocation is unsettled.
C5_EveryRowOnceInOrder ==
    \A c \in CallIds :
        LET call == calls[c]
        IN  /\ call.invocations = [j \in 1 .. Len(call.invocations) |-> j]
            /\ Len(call.invocations) - Len(call.outcomes) \in {0, 1}
            /\ call.pc \in {"resolved", "rejected"} =>
                  Len(call.invocations) = Len(call.inputRows)

NoScheduledFor(profile) ==
    ~ \E i \in Positions :
          batches[i].profile = profile /\ batches[i].status = "scheduled"

\* C6: executeBatch for a profile without a batch in status scheduled throws the
\* 'no scheduled batch' error and changes no batch, writes nothing and emits
\* nothing.
C6_NoScheduledBatchThrows ==
    [][\A p \in Profiles :
          (/\ NoScheduledFor(p)
           /\ \E rows \in InputRowLists, ok1 \in BOOLEAN, ok2 \in BOOLEAN :
                 ExecuteBatch(p, rows, ok1, ok2))
          => /\ lastError' = [message |-> NoScheduledBatch, profile |-> p]
             /\ UNCHANGED <<batches, persisted, writeCalls, events, calls>>]_vars

\* executeBatch has just thrown for a profile all of whose batches were started
\* before.
C6_Witness ==
    /\ lastError.message = NoScheduledBatch
    /\ \E i \in Positions : batches[i].profile = lastError.profile
    /\ NoScheduledFor(lastError.profile)

\* C7: whatever a row's processor rejects with, executeBatch does not fail: the
\* row is recorded as a FailureRecord with attempt = 1.
C7_RowFailureNeverFailsCall ==
    \A c \in CallIds :
        /\ calls[c].pc # "rejected"
        /\ Len(calls[c].failures) = Cardinality(FailedRows(calls[c]))
        /\ \A j \in 1 .. Len(calls[c].failures) : calls[c].failures[j].attempt = 1

\* C8: a batch that entered running reaches completed or failed once every
\* processor invocation of its call has settled.
C8_StartedBatchEnds ==
    \A c \in CallIds :
        calls[c].pc # "awaiting" => batches[calls[c].batch].status \in Terminal

ScheduledOf(reg, profile) ==
    {i \in 1 .. Len(reg) : reg[i].profile = profile /\ reg[i].status = "scheduled"}

\* C9: of several scheduled batches of one profile, executeBatch starts the one
\* scheduled most recently.
C9_StartsMostRecent ==
    [][Len(calls') > Len(calls) =>
          LET call == calls'[Len(calls')]
          IN  \A j \in ScheduledOf(batches, call.profile) : j <= call.batch]_vars

\* C10: a scheduleBatchRun call adds exactly one batch, scheduled, with zero
\* counters, under an id no batch of the registry has, and leaves the others
\* as they are.
C10_ScheduleAddsOneFreshBatch ==
    [][\A p \in Profiles, cfg \in BatchConfigs, id \in Ids, ok \in BOOLEAN :
          ScheduleBatchRun(p, cfg, id, ok) =>
              /\ Len(batches') = Len(batches) + 1
              /\ \A i \in Positions : batches'[i] = batches[i]
              /\ LET b == batches'[Len(batches')]
                 IN  /\ b.status = "scheduled"
                     /\ b.profile = p
                     /\ b.progress = [total |-> 0, processed |-> 0,
                                      failed |-> 0, succeeded |-> 0]
                     /\ \A i \in Positions : batches[i].id # b.id]_vars

\* A batch was scheduled while an earlier one was already running.
C10_Witness ==
    /\ Len(batches) = 2
    /\ batches[1].status = "running"
    /\ batches[2].status = "scheduled"
    /\ batches[2].progress.total = 0
    /\ batches[1].id # batches[2].id

\* C11: a scheduleBatchRun call whose write of the state file fails does not
\* return a batch id as if the batch had been saved: it fails to its caller.
C11_FailedWriteFailsSchedule ==
    [][\A p \in Profiles, cfg \in BatchConfigs, id \in Ids :
          ScheduleBatchRun(p, cfg, id, FALSE) =>
              /\ lastError' # NoError
              /\ persisted'.kind = "json" => id \notin BatchIds(persisted'.entries)]_vars

\* The events of a batch id that executeBatch emits (handleBatchCompletion
\* adds batchFinalized events under the same id).
IsRunEvent(e) == e.name \in {"batchStarted", "progress", "batchCompleted"}

RunEvents(id) == SelectSeq(events[id], IsRunEvent)

\* C12: for an executeBatch run on n rows the events of its batch id are one
\* batchStarted, then n progress events with processed = 1, 2, ..., n, then one
\* batchCompleted: a prefix of that sequence while the run lasts, all of it
\* once the run has ended; no payload changes after its emission.
C12_EventSequencePerRun ==
    \A c \in CallIds :
        LET call == calls[c]
            n == Len(call.inputRows)
            evs == RunEvents(batches[call.batch].id)
            k == Len(evs)
        IN  /\ k >= 1
            /\ k <= n + 2
            /\ evs[1].name = "batchStarted"
            /\ \A j \in 2 .. k :
                  IF j <= n + 1
                  THEN evs[j].name = "progress" /\ evs[j].payload.processed = j - 1
                  ELSE evs[j].name = "batchCompleted"
            /\ call.pc \in {"resolved", "rejected"} => k = n + 2

\* C13: at every progress snapshot (in the registry and in the state file) the
\* batch's failure list has as many records as progress.failed counts.
C13_FailureListTracksFailed ==
    /\ \A i \in Positions : Len(batches[i].failures) = batches[i].progress.failed
    /\ \A i \in 1 .. Len(persisted.entries) :
          Len(persisted.entries[i].failures) = persisted.entries[i].progress.failed

\* What trackBatchProgress has to return for an id, read off the registry.
ProgressOf(reg, id) ==
    IF \A i \in 1 .. Len(reg) : reg[i].id # id THEN Null
    ELSE reg[CHOOSE i \in 1 .. Len(reg) : reg[i].id = id].progress

\* C14: trackBatchProgress returns null for an id outside the registry and the
\* batch's current progress otherwise; the call changes no batch, no state file
\* and no event, and a write of the caller to the returned object changes no
\* batch and no event, so later calls still report the batch's own progress.
C14_TrackIsReadOnlyCopy ==
    [][/\ \A id \in Ids, keep \in BOOLEAN :
             TrackBatchProgress(id, keep) =>
                 /\ UNCHANGED <<batches, persisted, events>>
                 /\ trackBatchProgress(batches, id) = ProgressOf(batches, id)
                 /\ keep => held'.value = ProgressOf(batches, id)
       /\ (\E field \in ProgressFields : CallerChangesResult(field)) =>
             /\ UNCHANGED <<batches, persisted, events>>
             /\ \A id \in Ids : trackBatchProgress(batches', id) = ProgressOf(batches, id)]_vars

\* A caller kept the progress of a running batch, wrote to its copy, and the
\* batch has processed a further row since.
C14_Witness ==
    /\ held.changes = 1
    /\ held.value # Null
    /\ \E i \in Positions :
          /\ batches[i].id = held.batchId
          /\ ConsistentCounters(batches[i].progress)
          /\ batches[i].progress.processed >= 2
          /\ held.value.total = batches[i].progress.total
          /\ held.value # batches[i].progress

\* ---------------------------------------------------------------- retry properties
RetryEnded == retry.pc \in {"returned", "rejected"}

RetryRecords == 1 .. Len(retry.failures)

\* The maxAttempts a policy states: 3 only when it states none.
StatedMaxAttempts == IF retry.retryPolicy.given THEN retry.retryPolicy.maxAttempts ELSE 3

\* The processForm calls for record j that failed, whatever they failed with.
FailedTries(j) ==
    {i \in 1 .. Len(retry.outcomes[j]) : retry.outcomes[j][i] # "success"}

\* processForm was called for record j and every call failed.
AlwaysFailed(j) ==
    /\ retry.outcomes[j] # <<>>
    /\ Cardinality(FailedTries(j)) = Len(retry.outcomes[j])

Succeeded(j) ==
    /\ retry.outcomes[j] # <<>>
    /\ retry.outcomes[j][Len(retry.outcomes[j])] = "success"

\* The attempt count record j ends with: the one it came with (1 when it came
\* with none) plus one per failed call.
FinalAttemptOf(j) ==
    (IF retry.failures[j].attempt = 0 THEN 1 ELSE retry.failures[j].attempt)
        + Cardinality(FailedTries(j))

\* The message of the last failure of record j: the one it came with when no
\* call was made for it.
LastErrorOf(j) ==
    IF retry.outcomes[j] = <<>> THEN retry.failures[j].error
    ELSE IF retry.outcomes[j][Len(retry.outcomes[j])] = "Error"
         THEN "Simulated form submission error"
         ELSE "undefined"

ReturnedFailuresOf(j) ==
    {i \in 1 .. Len(retry.returned.failures) : retry.returned.failures[i].row = j}

ReturnedResultsOf(j) ==
    {i \in 1 .. Len(retry.returned.succeeded) : retry.returned.succeeded[i].row = j}

\* C15: a record that comes with attempt a, 1 <= a <= maxAttempts, and whose
\* processor fails at every call is returned in failures with attempt =
\* maxAttempts + 1 and is not in succeeded.
C15_ExhaustedRecordReturned ==
    RetryEnded =>
        \A j \in RetryRecords :
            (/\ 1 <= retry.failures[j].attempt
             /\ retry.failures[j].attempt <= StatedMaxAttempts
             /\ AlwaysFailed(j))
            => /\ retry.pc = "returned"
               /\ \E i \in ReturnedFailuresOf(j) :
                     retry.returned.failures[i].attempt = StatedMaxAttempts + 1
               /\ ReturnedResultsOf(j) = {}

\* C16: the call returns every input record exactly once, in succeeded or in
\* failures, and every entry of failures carries the record's last error and
\* final attempt count, also for a record that came with attempt > maxAttempts.
C16_EveryRecordAccounted ==
    RetryEnded =>
        /\ retry.pc = "returned"
        /\ Len(retry.returned.succeeded) + Len(retry.returned.failures)
              = Len(retry.failures)
        /\ \A j \in RetryRecords :
              /\ Cardinality(ReturnedFailuresOf(j)) + Cardinality(ReturnedResultsOf(j)) = 1
              /\ \A i \in ReturnedFailuresOf(j) :
                    /\ retry.returned.failures[i].error = LastErrorOf(j)
                    /\ retry.returned.failures[i].attempt = FinalAttemptOf(j)

\* max(0, n)
Max0(n) == IF n > 0 THEN n ELSE 0

\* C17: for a record with attempt a under a policy stating maxAttempts = m
\* (3 only when it states none) the processor is invoked at most
\* max(0, m - a + 1) times, and not again after an invocation succeeded.
C17_InvocationsBounded ==
    \A j \in RetryRecords :
        /\ retry.invocations[j] <=
              Max0(StatedMaxAttempts - retry.failures[j].attempt + 1)
        /\ \A i \in 1 .. Len(retry.outcomes[j]) :
              retry.outcomes[j][i] = "success" => retry.invocations[j] = i

\* C18: whatever a processor rejects with, retryFailedSubmissions does not
\* fail, and what it returns for a record follows from the calls made for that
\* record alone.
C18_RetryFailureIsolated ==
    /\ retry.pc # "rejected"
    /\ retry.pc = "returned" =>
          \A j \in RetryRecords :
              IF Succeeded(j)
              THEN ReturnedResultsOf(j) # {} /\ ReturnedFailuresOf(j) = {}
              ELSE /\ ReturnedResultsOf(j) = {}
                   /\ \E i \in ReturnedFailuresOf(j) :
                         retry.returned.failures[i].attempt = FinalAttemptOf(j)

\* ---------------------------------------------------------------- mapping properties
\* A rule matches a field: its fieldMatch is satisfied (the function returns
\* true for the field, or the pattern accepts its name, id or label) and its
\* typeMatch is absent, the field's type, or a list with the field's type.
Matches(field, rule) ==
    /\ \/ rule.fieldMatch.kind = "function" /\ field \in rule.fieldMatch.fields
       \/ /\ rule.fieldMatch.kind = "pattern"
          /\ {field.name, field.id, field.label} \cap rule.fieldMatch.strings # {}
    /\ \/ rule.typeMatch.kind = "absent"
       \/ rule.typeMatch.kind = "string" /\ rule.typeMatch.types = {field.type}
       \/ rule.typeMatch.kind = "list" /\ field.type \in rule.typeMatch.types

\* The positions of the rules of the call that match its k-th field.
MatchingRules(k) ==
    {i \in 1 .. Len(mapped.rules.list) :
        mapped.rules.given /\ Matches(mapped.formFields[k], mapped.rules.list[i])}

FirstOf(S) == CHOOSE i \in S : \A j \in S : i <= j

\* C19: for every field list and rules argument (a missing or empty rule list
\* included) suggestMappings returns, without throwing, one entry per field, in
\* input order, with mapping null for a field no rule matches.
C19_OneSuggestionPerField ==
    mapped.impl # "none" =>
        /\ mapped.result.kind = "returned"
        /\ Len(mapped.result.suggestions) = Len(mapped.formFields)
        /\ \A k \in 1 .. Len(mapped.formFields) :
              /\ mapped.result.suggestions[k].field = mapped.formFields[k]
              /\ MatchingRules(k) = {} => mapped.result.suggestions[k].mapping = Null

C21_MatchAsStated ==
    mapped.impl # "none" /\ mapped.rules.given =>
        /\ mapped.result.kind = "returned"
        /\ \A k \in 1 .. Len(mapped.formFields) :
              mapped.result.evaluated[k] =
                 (IF MatchingRules(k) = {} THEN Len(mapped.rules.list)
                  ELSE FirstOf(MatchingRules(k)))

\* ---------------------------------------------------------------- detection properties
\* The result of the call is the value v.
ResultIs(v) == scan.result.kind = "returned" /\ scan.result.value = v

\* An element carries one of the marks of a hidden element: display none,
\* visibility hidden, opacity 0, a hidden-marker class, or an aria-hidden
\* attribute with a value other than 'false'.
Marked(element) ==
    \/ element.display = "none"
    \/ element.visibility = "hidden"
    \/ element.opacity = "0"
    \/ element.classes \cap {"hidden", "invisible", "display-none"} # {}
    \/ element.ariaHidden \in {Str("true"), Str("")}

\* The node or one of its ancestors carries such a mark.
MarkedUpwards(node) == \E i \in 1 .. Len(node.chain) : Marked(node.chain[i])

\* C22: isHidden(node) returns true when the node or one of its ancestors
\* carries a mark of a hidden element, and returns false for an attached node
\* none of whose ancestors-or-self carries one.
C22_HiddenExactlyWhenMarked ==
    scan.fn = "isHidden" /\ scan.impl # "none" =>
        /\ MarkedUpwards(scan.input) => ResultIs(TRUE)
        /\ scan.input.view /\ ~MarkedUpwards(scan.input) => ResultIs(FALSE)

\* C23: in both implementations isHidden returns true, without throwing, for a
\* node whose document has no view (a detached node).
C23_DetachedIsHidden ==
    scan.fn = "isHidden" /\ scan.impl # "none" /\ ~scan.input.view =>
        ResultIs(TRUE)

\* The positions at which element i stands in the returned list.
PlacesOf(i) == {k \in 1 .. Len(scan.result.value) : scan.result.value[k] = i}

RECURSIVE MarkedInTree(_, _)
\* Element i or one of its parentElement ancestors carries a mark of a hidden
\* element.
MarkedInTree(dom, i) ==
    \/ Marked(dom.elements[i].look)
    \/ dom.elements[i].parent # 0 /\ MarkedInTree(dom, dom.elements[i].parent)

\* The forms of the document, those of its shadow trees included.
FormsOf(dom) == {i \in 1 .. Len(dom.elements) : dom.elements[i].tag = "form"}

\* C24: the list detectForms returns holds every container at most once, holds
\* forms only, and holds no form that is hidden (for which isHidden is true:
\* the form or one of its parentElement ancestors carries a mark, or, in the
\* implementation with the guard, the document has no view).
C24_NoDuplicateNoHidden ==
    scan.fn = "detectForms" /\ scan.result.kind = "returned" =>
        \A k \in 1 .. Len(scan.result.value) :
            LET i == scan.result.value[k]
            IN  /\ PlacesOf(i) = {k}
                /\ i \in FormsOf(scan.input)
                /\ ~MarkedInTree(scan.input, i)
                /\ scan.impl = "part_003" => scan.input.view

\* A call returned a form that lies in a shadow tree and left out a hidden
\* form.
C24_Witness ==
    /\ scan.fn = "detectForms"
    /\ scan.impl = "form-detection-engine.js"
    /\ scan.result.kind = "returned"
    /\ \E i \in FormsOf(scan.input) :
          TreeOf(scan.input, i) # 0 /\ PlacesOf(i) # {}
    /\ \E i \in FormsOf(scan.input) :
          MarkedInTree(scan.input, i) /\ PlacesOf(i) = {}
RECURSIVE Rendered(_, _)
\* Element i is visible: neither it nor an ancestor carries a mark of a hidden
\* element, the elements that carry the shadow trees it lies in included.
Rendered(dom, i) ==
    /\ ~MarkedInTree(dom, i)
    /\ TreeOf(dom, i) # 0 => Rendered(dom, TreeOf(dom, i))

\* C25: for a document with a view, detectForms returns every visible form of
\* the document, those in shadow trees at any nesting depth included.
C25_EveryVisibleFormDetected ==
    scan.fn = "detectForms" /\ scan.impl # "none" /\ scan.input.view =>
        /\ scan.result.kind = "returned"
        /\ \A i \in FormsOf(scan.input) :
              Rendered(scan.input, i) => PlacesOf(i) # {}

\* C26: every field of an extractFormMetadata result has a non-empty name or a
\* non-empty id (those of its control), belongs to a control that is neither
\* hidden nor disabled, and appears only once; the fields are in the document
\* order of the container's controls.
C26_FieldsNamedVisibleOnceInOrder ==
    scan.fn = "extractFormMetadata" /\ scan.result.kind = "returned" =>
        LET fields == scan.result.value.fields
            form == scan.input
        IN  \A p \in 1 .. Len(fields) :
                /\ fields[p].name # "" \/ fields[p].id # ""
                /\ fields[p].node \in 1 .. Len(form.elements)
                /\ fields[p].name = form.elements[fields[p].node].name
                /\ fields[p].id = form.elements[fields[p].node].id
                /\ ~Marked(form.elements[fields[p].node].look)
                /\ ~Marked(form.look)
                /\ scan.impl = "part_003" => form.view
                /\ ~form.elements[fields[p].node].disabled
                /\ \A q \in 1 .. Len(fields) :
                      p < q => fields[p].node < fields[q].node

\* A call returned the fields of two controls in their order and left out a
\* control without name and id that stands between them.
C26_Witness ==
    /\ scan.fn = "extractFormMetadata"
    /\ scan.impl = "form-detection-engine.js"
    /\ scan.result.kind = "returned"
    /\ Len(scan.input.elements) = 3
    /\ Len(scan.result.value.fields) = 2
    /\ scan.input.elements[2].name = ""
    /\ scan.input.elements[2].id = ""
    /\ ~scan.input.elements[2].disabled
    /\ ~Marked(scan.input.elements[2].look)

\* C27: every FieldDescriptor of a synthetic form returned by
\* fallbackVisualDetection has a non-empty name or a non-empty id.
C27_SyntheticFieldsNamed ==
    scan.fn = "fallbackVisualDetection" /\ scan.result.kind = "returned" =>
        \A c \in 1 .. Len(scan.result.value) :
            \A p \in 1 .. Len(scan.result.value[c].fields) :
                \/ scan.result.value[c].fields[p].name # ""
                \/ scan.result.value[c].fields[p].id # ""

\* The visible enabled controls of a snapshot: its elements that one of the
\* selectors selects, that carry no mark of a hidden element and are not
\* disabled.
VisibleEnabled(domSnapshot) ==
    {i \in 1 .. Len(domSnapshot.elements) :
        /\ \E s \in 1 .. Len(FORM_FIELD_SELECTORS) : Selects(s, domSnapshot.elements[i])
        /\ ~Marked(domSnapshot.elements[i].look)
        /\ ~domSnapshot.elements[i].disabled}

\* C28: no synthetic form returned by fallbackVisualDetection has fewer than 2
\* fields, and a snapshot with fewer than 2 visible enabled controls yields no
\* synthetic form.
C28_NoSmallSyntheticForm ==
    scan.fn = "fallbackVisualDetection" /\ scan.result.kind = "returned" =>
        /\ \A c \in 1 .. Len(scan.result.value) :
              Len(scan.result.value[c].fields) >= 2
        /\ Cardinality(VisibleEnabled(scan.input)) < 2 => scan.result.value = <<>>

\* C29: in both implementations every synthetic form of a result has
\* synthetic = true, no container reference, and a non-empty generated id and
\* name that differ from those of every other synthetic form of the result.
C29_SyntheticFormsIdentified ==
    scan.fn = "fallbackVisualDetection" /\ scan.result.kind = "returned" =>
        \A c \in 1 .. Len(scan.result.value) :
            /\ scan.result.value[c].synthetic
            /\ scan.result.value[c].node = Null
            /\ scan.result.value[c].id # ""
            /\ scan.result.value[c].name # ""
            /\ \A d \in 1 .. Len(scan.result.value) :
                  c # d => /\ scan.result.value[c].id # scan.result.value[d].id
                           /\ scan.result.value[c].name # scan.result.value[d].name

\* The fields of the call for which a predicate that the loop reaches throws.
Offending ==
    {k \in 1 .. Len(mapped.formFields) :
        \E i \in 1 .. Len(mapped.rules.list) :
            /\ mapped.formFields[k] \in mapped.rules.list[i].fieldMatch.throws
            /\ \A j \in 1 .. i - 1 :
                  ~Matches(mapped.formFields[k], mapped.rules.list[j])}

\* C30: a failure raised for one field or one control does not abort
\* suggestMappings or extractFormMetadata: the call returns, and every field
\* for which no predicate throws has its entry in the suggestions.
C30_ItemFailureIsolated ==
    /\ mapped.impl = "form-detection-engine.js" =>
          /\ mapped.result.kind = "returned"
          /\ \A k \in 1 .. Len(mapped.formFields) :
                k \notin Offending =>
                    \E p \in 1 .. Len(mapped.result.suggestions) :
                        mapped.result.suggestions[p].field = mapped.formFields[k]
    /\ scan.fn = "extractFormMetadata" /\ scan.impl # "none" =>
          scan.result.kind = "returned"

\* ---------------------------------------------------------------- finalize properties
\* The number of batchFinalized events emitted so far, for all batch ids.
RECURSIVE FinalizedEvents(_)
FinalizedEvents(ids) ==
    IF ids = {} THEN 0
    ELSE LET id == CHOOSE x \in ids : TRUE
         IN  Len(SelectSeq(events[id], LAMBDA e : e.name = "batchFinalized")) +
             FinalizedEvents(ids \ {id})

Considered ==
    Sorted(scan.input,
           VisibleControls(scan.impl, scan.input, Controls(scan.input, 1)))

\* The k-th of the controls lies within the threshold of the one before it.
Joined(controls, k) ==
    LET top == scan.input.elements[controls[k]].rect.top
        bottom == scan.input.elements[controls[k - 1]].rect.bottom
    IN  IF top >= bottom THEN top - bottom < 60 ELSE bottom - top < 60

\* The places where a cluster starts, and the place where the cluster that
\* starts at s ends.
ClusterStarts(controls) ==
    {k \in 1 .. Len(controls) : k = 1 \/ ~Joined(controls, k)}

ClusterEnd(controls, starts, s) ==
    CHOOSE e \in s .. Len(controls) :
        /\ \A k \in s + 1 .. e : k \notin starts
        /\ e = Len(controls) \/ e + 1 \in starts

C37_NoBatchStartedTwice ==
    [][ /\ \A c, d \in 1 .. Len(calls') :
              c # d => calls'[c].batch # calls'[d].batch
        /\ Len(calls') > Len(calls) =>
              LET i == calls'[Len(calls')].batch
              IN  /\ Len(calls') = Len(calls) + 1
                  /\ i \in 1 .. Len(batches)
                  /\ batches[i].status = "scheduled"
                  /\ batches[i].profile = calls'[Len(calls')].profile
                  /\ \A c \in 1 .. Len(calls) : calls[c].batch # i
        /\ (lastError' # NoError /\ lastError'.message = NoScheduledBatch) =>
              /\ calls' = calls
              /\ batches' = batches
              /\ \A i \in 1 .. Len(batches) :
                    batches[i].profile = lastError'.profile =>
                        batches[i].status # "scheduled" ]_vars

\* Two calls for one profile suspended on a row at the same time, each on its
\* own batch, and a third call for that profile that has failed.
C37_Witness ==
    /\ Len(calls) = 2
    /\ calls[1].profile = calls[2].profile
    /\ calls[1].pc = "awaiting"
    /\ calls[2].pc = "awaiting"
    /\ calls[1].batch # calls[2].batch
    /\ batches[calls[1].batch].status = "running"
    /\ batches[calls[2].batch].status = "running"
    /\ lastError # NoError
    /\ lastError.message = NoScheduledBatch
    /\ lastError.profile = calls[1].profile
\* ---------------------------------------------------------------- restart properties
\* The batches the registry loaded from the state file in status 'running'.
LoadedRunning == {i \in 1 .. Len(batches) : statusLog[i][1] = "running"}

\* C38: a batch loaded from the state file in status 'running' is never
\* selected by an executeBatch call: no call holds it, and its rows and its
\* counters stay as they were loaded.
C38_InterruptedBatchNeverRerun ==
    \A i \in LoadedRunning :
        /\ \A c \in 1 .. Len(calls) : calls[c].batch # i
        /\ batches[i].inputRows = InterruptedBatch.inputRows
        /\ batches[i].progress = InterruptedBatch.progress
        /\ batches[i].status \in {"running", "completed"}
        /\ batches[i].status = "completed" => batches[i].summary.kind = "external"

\* After a restart with an interrupted batch, an executeBatch call for the
\* profile of that batch has run on a batch scheduled after the restart and
\* has called the processor, and the interrupted batch is still 'running'.
C38_Witness ==
    /\ LoadedRunning = {1}
    /\ batches[1].status = "running"
    /\ Len(calls) = 1
    /\ calls[1].profile = batches[1].profile
    /\ calls[1].batch = 2
    /\ calls[1].invocations # <<>>
\* ---------------------------------------------------------------- notification properties
\* The streams that are open: handed out and not ended.
OpenStreams == {s \in 1 .. Len(manager.streams) : ~manager.streams[s].cleanedUp}

\* C32: a stream emits a data event for exactly the notifications sent while it
\* is open that are addressed to its userId or to no user: a sendNotification
\* step appends the notification to the data events of every open stream with
\* that userId (every open stream, for a notification to no user) and of no
\* other stream, and no other step adds a data event.
C32_StreamGetsOwnAndGlobal ==
    [][ \A s \in 1 .. Len(manager.streams) :
          IF Len(manager'.notifications) = Len(manager.notifications) + 1
          THEN LET n == manager'.notifications[Len(manager'.notifications)]
               IN  manager'.streams[s].data =
                       IF /\ s \in OpenStreams
                          /\ n.userId \in {"", manager.streams[s].userId}
                       THEN Append(manager.streams[s].data, n.id)
                       ELSE manager.streams[s].data
          ELSE manager'.streams[s].data = manager.streams[s].data ]_vars

\* Two open streams of different users after a notification to the first
\* user and one to no user: the first has emitted both, the second the
\* global one only.
C32_Witness ==
    /\ Len(manager.streams) = 2
    /\ OpenStreams = {1, 2}
    /\ manager.streams[1].userId = "user1"
    /\ manager.streams[2].userId = "user2"
    /\ Len(manager.notifications) = 2
    /\ manager.notifications[1].userId = "user1"
    /\ manager.notifications[2].userId = ""
    /\ manager.streams[1].data = <<1, 2>>
    /\ manager.streams[2].data = <<2>>
\* C33: once a stream has ended, by close() or by its timeout, it emits no
\* data event for a notification sent afterwards and its listener is off the
\* manager, removed once: the step that ends a stream takes exactly its
\* listener off the manager's 'notification' listeners and emits one 'close';
\* no later step (a further close(), a later expiry of the timer, a
\* notification) changes the listeners on its account, its data events or its
\* 'close' events; the manager has one listener per open stream.
C33_EndedStreamStaysEnded ==
    [][ /\ \A s \in 1 .. Len(manager.streams) :
              LET before == manager.streams[s]
                  after == manager'.streams[s]
              IN  /\ before.cleanedUp =>
                        /\ after.cleanedUp
                        /\ after.data = before.data
                        /\ after.closeEvents = before.closeEvents
                        /\ \A k \in 1 .. Len(manager'.listeners) :
                              manager'.listeners[k] # s
                  /\ ~before.cleanedUp /\ after.cleanedUp =>
                        /\ Len(manager'.listeners) = Len(manager.listeners) - 1
                        /\ \A k \in 1 .. Len(manager'.listeners) :
                              manager'.listeners[k] # s
                        /\ after.closeEvents = before.closeEvents + 1
                        /\ after.timeout # "armed" \/ ~before.listening
        /\ (\A s \in 1 .. Len(manager.streams) :
                manager.streams[s].cleanedUp = manager'.streams[s].cleanedUp)
             /\ Len(manager'.streams) = Len(manager.streams)
             => manager'.listeners = manager.listeners
        /\ Len(manager'.listeners) =
              Cardinality({s \in 1 .. Len(manager'.streams) :
                              ~manager'.streams[s].cleanedUp}) ]_vars

\* Two ended streams whose timers have expired, the first after one
\* notification that reached it alone; a notification to no user sent after
\* both had ended has reached neither.
C33_Witness ==
    /\ Len(manager.streams) = 2
    /\ OpenStreams = {}
    /\ manager.listeners = <<>>
    /\ manager.streams[1].timeout = "fired"
    /\ manager.streams[1].closeEvents = 1
    /\ manager.streams[1].data = <<1>>
    /\ manager.streams[2].timeout = "fired"
    /\ manager.streams[2].closeEvents = 1
    /\ manager.streams[2].data = <<>>
    /\ Len(manager.notifications) = 2
    /\ manager.notifications[2].userId = ""
\* ---------------------------------------------------------------- statistics properties
\* The counter the stats file holds for a form id and an event type.
Stored(f, e) ==
    IF statsDb.file.stats[f].kind = "counters" THEN statsDb.file.stats[f][e] ELSE 0

\* The valid updates for a form id and an event type that have returned.
ReturnedUpdates(f, e) ==
    {c \in 1 .. Len(statsDb.calls) :
        /\ statsDb.calls[c].pc = "done"
        /\ statsDb.calls[c].formId = f
        /\ statsDb.calls[c].eventType = e}

\* Overlapping updates: a call was made while another had not returned.
\* For the ids that no object inherits a property for, without a failed read
\* or write, the stored counter is the number of updates that have returned.
OrdinaryCountersExact ==
    statsDb.errors = 0 =>
        \A e \in CountedTypes :
            Stored("form1", e) = Cardinality(ReturnedUpdates("form1", e))

\* C31: without a read or write error, the counter stored for a form id and an
\* event type has grown by exactly the number of valid updates for them that
\* have returned (the file starts without counters), however the calls
\* overlapped.
C31_NoIncrementLost ==
    statsDb.errors = 0 =>
        \A f \in StatsKeys, e \in CountedTypes :
            Stored(f, e) = Cardinality(ReturnedUpdates(f, e))
\* ---------------------------------------------------------------- debounce properties
\* The executions of the wrapped function that are in flight.
InFlight ==
    {e \in 1 .. Len(debounce.executions) : debounce.executions[e].state = "running"}

\* C39: the function returned by debounceAsync never has two executions of the
\* wrapped function in flight at the same time.
C39_NoOverlappingExecutions == Cardinality(InFlight) <= 1

\* The timer of a second trigger has expired while the execution started for
\* the first trigger is still in flight, and no second execution was started.
C39_Witness ==
    /\ debounce.triggers = 2
    /\ debounce.t = "none"
    /\ debounce.executions = <<[args |-> 1, state |-> "running"]>>

\* C40: every trigger is eventually followed by an execution of the wrapped
\* function that starts after that trigger (an execution called with the
\* arguments of that trigger or of a later one).
C40_EveryTriggerServed ==
    \A k \in 1 .. MaxTriggers :
        (debounce.triggers >= k) ~>
            (\E e \in 1 .. Len(debounce.executions) : debounce.executions[e].args >= k)
====
